---- MODULE Spec2Model ----
(***************************************************************************)
(* A model of the retrieval-and-generation pipeline of the diary           *)
(* interpolation service: Retriever.search (retriever.py), the generator   *)
(* with its deterministic fallback and the self-check validator            *)
(* (rag_chain.py) and Orchestrator.interpolate (orchestrator.py).          *)
(*                                                                         *)
(* A Python str is a sequence of Unicode code points (natural numbers),    *)
(* so that len(), strip(), splitlines(), "in" and the regular expressions  *)
(* of the source are computed character by character.                      *)
(***************************************************************************)
EXTENDS Integers, Sequences, FiniteSets, TLC

(***************************************************************************)
(* Python str primitives                                                   *)
(***************************************************************************)

\* the characters str.isspace() accepts, which str.strip() with no argument
\* removes and the regular expression class \s matches
Whitespace ==
  {9, 10, 11, 12, 13, 28, 29, 30, 31, 32, 133, 160, 5760} \cup (8192..8202)
    \cup {8232, 8233, 8239, 8287, 12288}

\* the line boundaries of str.splitlines()
LineBreaks == {10, 11, 12, 13, 28, 29, 30, 133, 8232, 8233}

\* F applied to the value of x: x is evaluated once, as the assignment to a
\* Python local evaluates its right-hand side once
WithValue(x, F(_)) == CHOOSE r \in {F(v) : v \in {x}} : TRUE

\* s[i:] for a 0-based i <= len(s)
Drop(s, n) == SubSeq(s, n + 1, Len(s))

\* s[:n]
Take(s, n) == SubSeq(s, 1, IF n < Len(s) THEN n ELSE Len(s))

\* s.startswith(p)
StartsWith(s, p) == Len(p) <= Len(s) /\ SubSeq(s, 1, Len(p)) = p

\* s.endswith(p)
EndsWith(s, p) ==
  Len(p) <= Len(s) /\ SubSeq(s, Len(s) - Len(p) + 1, Len(s)) = p

\* sub in s
Contains(s, sub) ==
  \E t \in {s}, u \in {sub} :
     \E i \in 1..(Len(t) - Len(u) + 1) :
        \A j \in 1..Len(u) : t[i + j - 1] = u[j]

\* the least member of a non-empty set of integers
Min(S) == CHOOSE x \in S : \A y \in S : x <= y

\* the number of characters of s from position i on that lie in chars
RECURSIVE LeadFrom(_, _, _)
LeadFrom(s, i, chars) ==
  IF i > Len(s) \/ s[i] \notin chars THEN 0
  ELSE 1 + LeadFrom(s, i + 1, chars)

\* the number of characters of s from position i back that lie in chars
RECURSIVE TrailFrom(_, _, _)
TrailFrom(s, i, chars) ==
  IF i < 1 \/ s[i] \notin chars THEN 0
  ELSE 1 + TrailFrom(s, i - 1, chars)

\* the number of leading, and of trailing, characters of s that lie in chars
LeadCount(s, chars) == LeadFrom(s, 1, chars)
TrailCount(s, chars) == TrailFrom(s, Len(s), chars)

\* s.lstrip(chars), s.rstrip(chars), s.strip(chars)
LStrip(s, chars) == Drop(s, LeadCount(s, chars))
RStrip(s, chars) == SubSeq(s, 1, Len(s) - TrailCount(s, chars))
Strip(s, chars) == RStrip(LStrip(s, chars), chars)

\* s.replace(c, "") for a single character c
RemoveChar(s, c) == SelectSeq(s, LAMBDA x : x # c)

\* s.replace(c, d) for single characters c and d
ReplaceChar(s, c, d) ==
  WithValue(s, LAMBDA t : [i \in 1..Len(t) |-> IF t[i] = c THEN d ELSE t[i]])

\* sep.join(parts)
RECURSIVE Join(_, _)
Join(parts, sep) ==
  IF parts = << >> THEN << >>
  ELSE IF Len(parts) = 1 THEN parts[1]
  ELSE parts[1] \o sep \o Join(Tail(parts), sep)

\* "".join(parts)
Concat(parts) == Join(parts, << >>)

\* the index of the first line boundary of s, 0 when it has none
FirstBreak(s) ==
  LET breaks == {i \in 1..Len(s) : s[i] \in LineBreaks} IN
  IF breaks = {} THEN 0 ELSE Min(breaks)

\* s.splitlines(): the lines without their boundaries; "\r\n" is one
\* boundary and a final boundary opens no empty last line
RECURSIVE SplitLines(_)
SplitLines(text) ==
  WithValue(text, LAMBDA s :
    IF s = << >> THEN << >>
    ELSE WithValue(FirstBreak(s), LAMBDA b :
           IF b = 0 THEN <<s>>
           ELSE LET crlf == s[b] = 13 /\ b < Len(s) /\ s[b + 1] = 10
                    rest == Drop(s, IF crlf THEN b + 1 ELSE b)
                IN  <<SubSeq(s, 1, b - 1)>> \o SplitLines(rest)))

\* c repeated n times
Repeat(c, n) == [i \in 1..n |-> c]


(***************************************************************************)
(* rag_chain.py: literals                                                  *)
(***************************************************************************)

\* None, as an argument that is not a str
None == <<-1>>

\* characters the source names in its strip sets, patterns and f-strings
NEWLINE == 10
SPACE == 32
HYPHEN == 45
IDEOGRAPHIC_SPACE == 12288
MARU == 12290
MIDDLE_DOT == 12539
PAREN_OPEN == 65288
PAREN_CLOSE == 65289

\* rag_chain.py:31 BANNED_WORDS = {"超", "マジ", "ヤバい", "ヤベー", "まじで"}
BANNED_WORDS ==
  { <<36229>>, <<12510, 12472>>, <<12516, 12496, 12356>>,
    <<12516, 12505, 12540>>, <<12414, 12376, 12391>> }

\* rag_chain.py:32 TIME_PREFIX_PATTERN, the alternatives of its first group
\* in the order the pattern lists them: 朝|午前|午前中|昼|午後|夕方|夜|終日
TIME_PREFIXES ==
  << <<26397>>, <<21320, 21069>>, <<21320, 21069, 20013>>, <<26172>>,
     <<21320, 24460>>, <<22805, 26041>>, <<22812>>, <<32066, 26085>> >>

\* rag_chain.py:32 the alternatives of its optional second group, in order:
\* から|には|にかけて|まで|は|に
TIME_PARTICLES ==
  << <<12363, 12425>>, <<12395, 12399>>, <<12395, 12363, 12369, 12390>>,
     <<12414, 12391>>, <<12399>>, <<12395>> >>

\* rag_chain.py:144 the alternatives in order: には|に|は|で|を|と|が|へ|も
LEADING_PARTICLES ==
  << <<12395, 12399>>, <<12395>>, <<12399>>, <<12391>>, <<12434>>,
     <<12392>>, <<12364>>, <<12408>>, <<12418>> >>

\* rag_chain.py:140 the class [0-9] and the class [\.)、\-]
DIGITS == 48..57
ENUM_MARKERS == {46, 41, 12289, 45}

\* rag_chain.py:145 the class [、。,.\s]
LEADING_PUNCT == {12289, 12290, 44, 46} \cup Whitespace

\* rag_chain.py:146 strip("。．.、,")
POINT_STRIP == {12290, 65294, 46, 12289, 44}

\* rag_chain.py:152 strip("・ ")
BULLET_STRIP == {MIDDLE_DOT, SPACE}

\* rag_chain.py:169 strip("。．. ")
SENTENCE_STRIP == {12290, 65294, 46, 32}

\* rag_chain.py:314 the characters of "!?！？"
BANNED_PUNCT == {33, 63, 65281, 65311}

\* rag_chain.py:160 the cap on key points
KEY_POINT_CAP == 3

\* rag_chain.py:197 the padding loop's two thresholds
PAD_MIN == 210
PAD_MAX == 280

\* rag_chain.py:308 the length check's band
LEN_MIN == 200
LEN_MAX == 280

\* rag_chain.py:151 f"{date} の記録": " の記録" (4 characters)
HEADER_SUFFIX ==
  <<
    32, 12398, 35352, 37682 >>

\* rag_chain.py:164: "文脈情報が不足していますが、穏やかな一日だったと記録します" (29 characters)
DEFAULT_KEY_POINT ==
  <<
    25991, 33032, 24773, 22577, 12364, 19981, 36275, 12375, 12390, 12356,
    12414, 12377, 12364, 12289, 31311, 12420, 12363, 12394, 19968, 26085,
    12384, 12387, 12383, 12392, 35352, 37682, 12375, 12414, 12377 >>

\* rag_chain.py:166: "特記事項は記録されていません。" (15 characters)
DEFAULT_HINT_SENTENCE ==
  <<
    29305, 35352, 20107, 38917, 12399, 35352, 37682, 12373, 12428, 12390,
    12356, 12414, 12379, 12435, 12290 >>

\* rag_chain.py:175: "今日の出来事は提供された資料をもとに整理しました。" (25 characters)
LEAD_PREFIX ==
  <<
    20170, 26085, 12398, 20986, 26469, 20107, 12399, 25552, 20379, 12373,
    12428, 12383, 36039, 26009, 12434, 12418, 12392, 12395, 25972, 29702,
    12375, 12414, 12375, 12383, 12290 >>

\* rag_chain.py:183: "午前中は" (4 characters)
MORNING_PREFIX ==
  <<
    21320, 21069, 20013, 12399 >>

\* rag_chain.py:180,183: "静かに過ごしました" (9 characters)
MORNING_FALLBACK ==
  <<
    38745, 12363, 12395, 36942, 12372, 12375, 12414, 12375, 12383 >>

\* rag_chain.py:184: "午後は" (3 characters)
AFTERNOON_PREFIX ==
  <<
    21320, 24460, 12399 >>

\* rag_chain.py:181,184: "落ち着いた時間が流れました" (13 characters)
AFTERNOON_FALLBACK ==
  <<
    33853, 12385, 30528, 12356, 12383, 26178, 38291, 12364, 27969, 12428,
    12414, 12375, 12383 >>

\* rag_chain.py:191: "一日の終わりに簡単な振り返りを行い、記録を整えました" (26 characters)
CLOSING_DEFAULT ==
  <<
    19968, 26085, 12398, 32066, 12431, 12426, 12395, 31777, 21336, 12394,
    25391, 12426, 36820, 12426, 12434, 34892, 12356, 12289, 35352, 37682,
    12434, 25972, 12360, 12414, 12375, 12383 >>

\* rag_chain.py:192: "一日の締めくくりとして" (11 characters)
CLOSING_PREFIX ==
  <<
    19968, 26085, 12398, 32224, 12417, 12367, 12367, 12426, 12392, 12375,
    12390 >>

\* rag_chain.py:192: "記録を整えました" (8 characters)
CLOSING_FALLBACK ==
  <<
    35352, 37682, 12434, 25972, 12360, 12414, 12375, 12383 >>

\* rag_chain.py:195: "全体として落ち着いた雰囲気で、記録の整理と次の準備に時間を充てました。" (35 characters)
filler_sentence ==
  <<
    20840, 20307, 12392, 12375, 12390, 33853, 12385, 30528, 12356, 12383,
    38640, 22258, 27671, 12391, 12289, 35352, 37682, 12398, 25972, 29702,
    12392, 27425, 12398, 28310, 20633, 12395, 26178, 38291, 12434, 20805,
    12390, 12414, 12375, 12383, 12290 >>

\* rag_chain.py:272: '本文に日付を含める' (9 characters)
ISSUE_DATE ==
  <<
    26412, 25991, 12395, 26085, 20184, 12434, 21547, 12417, 12427 >>

\* rag_chain.py:281: '禁則語を除去する' (8 characters)
ISSUE_BANNED ==
  <<
    31105, 21063, 35486, 12434, 38500, 21435, 12377, 12427 >>

\* rag_chain.py:292: '見出し形式を修正する' (10 characters)
ISSUE_HEADER ==
  <<
    35211, 20986, 12375, 24418, 24335, 12434, 20462, 27491, 12377, 12427 >>

\* rag_chain.py:303: '本文構成を整える' (8 characters)
ISSUE_STRUCTURE ==
  <<
    26412, 25991, 27083, 25104, 12434, 25972, 12360, 12427 >>

\* rag_chain.py:312: '本文文字数を調整する' (10 characters)
ISSUE_LENGTH ==
  <<
    26412, 25991, 25991, 23383, 25968, 12434, 35519, 25972, 12377, 12427 >>

\* rag_chain.py:318: '禁則記号を削除する' (9 characters)
ISSUE_PUNCTUATION ==
  <<
    31105, 21063, 35352, 21495, 12434, 21066, 38500, 12377, 12427 >>

\* rag_chain.py:245: '日付未指定' (5 characters)
DATE_UNSPECIFIED ==
  <<
    26085, 20184, 26410, 25351, 23450 >>

\* rag_chain.py:246: '、' (1 characters)
ISSUE_SEPARATOR ==
  <<
    12289 >>

\* rag_chain.py:247: '次の点を修正して再生成: ' (13 characters)
RETRY_HEAD ==
  <<
    27425, 12398, 28857, 12434, 20462, 27491, 12375, 12390, 20877, 29983,
    25104, 58, 32 >>

\* rag_chain.py:247: '。対象日: ' (6 characters)
RETRY_FOCUS ==
  <<
    12290, 23550, 35937, 26085, 58, 32 >>

\* orchestrator.py:15: 'Error during retrieval: ' (24 characters)
ERROR_PREFIX ==
  <<
    69, 114, 114, 111, 114, 32, 100, 117, 114, 105, 110, 103, 32, 114, 101,
    116, 114, 105, 101, 118, 97, 108, 58, 32 >>

\* orchestrator.py:31: '...' (3 characters)
SNIPPET_ELLIPSIS ==
  <<
    46, 46, 46 >>

\* orchestrator.py:26: '（AIによる生成結果）\n日付: ' (16 characters)
STUB_HEAD ==
  <<
    65288, 65, 73, 12395, 12424, 12427, 29983, 25104, 32080, 26524, 65289,
    10, 26085, 20184, 58, 32 >>

\* orchestrator.py:26: '\nヒント: ' (6 characters)
STUB_HINT ==
  <<
    10, 12498, 12531, 12488, 58, 32 >>

\* orchestrator.py:26: '\n---\n[参照した過去の記憶]\n' (17 characters)
STUB_MEMORY ==
  <<
    10, 45, 45, 45, 10, 91, 21442, 29031, 12375, 12383, 36942, 21435, 12398,
    35352, 25014, 93, 10 >>

\* str(None): 'None' (4 characters)
PY_NONE ==
  <<
    78, 111, 110, 101 >>

\* retriever.py:53: 'Retriever is not properly initialized.' (38 characters)
NOT_INITIALIZED ==
  <<
    82, 101, 116, 114, 105, 101, 118, 101, 114, 32, 105, 115, 32, 110, 111,
    116, 32, 112, 114, 111, 112, 101, 114, 108, 121, 32, 105, 110, 105, 116,
    105, 97, 108, 105, 122, 101, 100, 46 >>

\* rag_chain.py:60: '情報ソースが見つかりませんでした。' (17 characters)
NO_SOURCES ==
  <<
    24773, 22577, 12477, 12540, 12473, 12364, 35211, 12388, 12363, 12426,
    12414, 12379, 12435, 12391, 12375, 12383, 12290 >>

(***************************************************************************)
(* rag_chain.py: _safe_str, _normalize_point, _fallback_generate           *)
(***************************************************************************)

\* _safe_str: "" for None, else str(value).strip()
safe_str(value) == IF value = None THEN << >> ELSE Strip(value, Whitespace)

\* the first alternative of alts, in order, that s starts with; << >> if none
RECURSIVE FirstAlternative(_, _)
FirstAlternative(s, alts) ==
  IF alts = << >> THEN << >>
  ELSE IF StartsWith(s, Head(alts)) THEN Head(alts)
  ELSE FirstAlternative(s, Tail(alts))

\* re.sub(r"^[0-9]+[\.)、\-]\s*", "", text)
StripEnumeration(text) ==
  LET n == LeadCount(text, DIGITS) IN
  IF n >= 1 /\ n < Len(text) /\ text[n + 1] \in ENUM_MARKERS
  THEN LStrip(Drop(text, n + 1), Whitespace)
  ELSE text

\* the index of the first closing parenthesis after the opening one at
\* s[i] with no newline between them (. matches no newline), 0 when there
\* is none
ClosingParen(s, i) ==
  LET closers == {j \in (i + 1)..Len(s) :
                    /\ s[j] = PAREN_CLOSE
                    /\ \A m \in (i + 1)..(j - 1) : s[m] # NEWLINE}
  IN  IF closers = {} THEN 0 ELSE Min(closers)

\* re.sub(r"（.*?）", "", cleaned): every full-width parenthesis pair goes,
\* leftmost first, each as short as possible
RECURSIVE StripAsides(_)
StripAsides(text) ==
  WithValue(text, LAMBDA s :
    WithValue({i \in 1..Len(s) : s[i] = PAREN_OPEN /\ ClosingParen(s, i) > 0},
              LAMBDA openers :
      IF openers = {} THEN s
      ELSE LET i == Min(openers) IN
           SubSeq(s, 1, i - 1) \o StripAsides(Drop(s, ClosingParen(s, i)))))

\* TIME_PREFIX_PATTERN.sub("", cleaned, count=1): the first alternative that
\* matches at the start is taken, then the first particle that follows it
StripTimePrefix(s) ==
  LET prefix == FirstAlternative(s, TIME_PREFIXES) IN
  IF prefix = << >> THEN s
  ELSE LET rest == Drop(s, Len(prefix))
           particle == FirstAlternative(rest, TIME_PARTICLES)
       IN  Drop(rest, Len(particle))

\* re.sub(r"^(?:には|に|は|で|を|と|が|へ|も)\s*", "", cleaned)
StripLeadingParticle(s) ==
  LET particle == FirstAlternative(s, LEADING_PARTICLES) IN
  IF particle = << >> THEN s
  ELSE LStrip(Drop(s, Len(particle)), Whitespace)

\* _normalize_point
normalize_point(text) ==
  WithValue(StripEnumeration(text), LAMBDA c1 :
  WithValue(StripAsides(c1), LAMBDA c2 :
  WithValue(Strip(ReplaceChar(c2, IDEOGRAPHIC_SPACE, SPACE), Whitespace),
            LAMBDA c3 :
  WithValue(StripTimePrefix(c3), LAMBDA c4 :
  WithValue(StripLeadingParticle(c4), LAMBDA c5 :
  WithValue(LStrip(c5, LEADING_PUNCT), LAMBDA c6 :
    Strip(c6, POINT_STRIP)))))))

\* context_lines: the lines of context that are not blank, each stripped of
\* bullets and spaces
ContextLines(context) ==
  WithValue(SelectSeq(SplitLines(context),
                      LAMBDA line : Strip(line, Whitespace) # << >>),
            LAMBDA kept : [i \in 1..Len(kept) |-> Strip(kept[i], BULLET_STRIP)])

\* a key point loop in which a line normalizing to nothing takes a slot:
\* only the first KEY_POINT_CAP lines are looked at
CollectKeyPoints_SlotPerLine(lines, key_points) ==
  SelectSeq([i \in 1..(IF Len(lines) < KEY_POINT_CAP THEN Len(lines)
                       ELSE KEY_POINT_CAP) |-> normalize_point(lines[i])],
            LAMBDA point : point # << >>)

\* the key point loop: non-empty normalized lines, until the cap is reached
RECURSIVE CollectKeyPoints(_, _)
CollectKeyPoints(lines, key_points) ==
  IF lines = << >> THEN key_points
  ELSE WithValue(normalize_point(Head(lines)), LAMBDA normalized :
       WithValue(IF normalized # << >> THEN Append(key_points, normalized)
                 ELSE key_points, LAMBDA next :
         IF Len(next) >= KEY_POINT_CAP THEN next
         ELSE CollectKeyPoints(Tail(lines), next)))

\* key_points, with the default phrase when none survives
KeyPoints(context) ==
  WithValue(CollectKeyPoints(ContextLines(context), << >>), LAMBDA found :
    IF found = << >> THEN <<DEFAULT_KEY_POINT>> ELSE found)

\* _ensure_sentence
ensure_sentence(prefix, fragment, fallback_phrase) ==
  WithValue(Strip(Strip(fragment, Whitespace), SENTENCE_STRIP),
            LAMBDA normalized :
    prefix \o (IF normalized = << >> THEN fallback_phrase ELSE normalized)
           \o <<MARU>>)

\* the opening paragraph
LeadParagraph(hint) ==
  WithValue(safe_str(hint), LAMBDA hs :
  WithValue(IF hs = << >> THEN DEFAULT_HINT_SENTENCE ELSE hs,
            LAMBDA hint_sentence :
  WithValue(Strip(LEAD_PREFIX \o hint_sentence, Whitespace), LAMBDA lead :
    IF EndsWith(lead, <<MARU>>) THEN lead ELSE lead \o <<MARU>>)))

\* the three paragraphs before padding
Paragraphs(context, hint) ==
  WithValue(KeyPoints(context), LAMBDA key_points :
    LET morning == key_points[1]
        afternoon == IF Len(key_points) > 1 THEN key_points[2]
                     ELSE AFTERNOON_FALLBACK
        closing_core == IF Len(key_points) > 2 THEN key_points[3]
                        ELSE CLOSING_DEFAULT
    IN  << LeadParagraph(hint),
           ensure_sentence(MORNING_PREFIX, morning, MORNING_FALLBACK)
             \o ensure_sentence(AFTERNOON_PREFIX, afternoon, AFTERNOON_FALLBACK),
           ensure_sentence(CLOSING_PREFIX, closing_core, CLOSING_FALLBACK) >>)

\* a padding loop that stops as soon as the length check would pass
PadNeeded_CheckBand(body_len) ==
  body_len < LEN_MIN /\ body_len + Len(filler_sentence) <= PAD_MAX

\* the padding loop's condition
PadNeeded(body_len) ==
  body_len < PAD_MIN /\ body_len + Len(filler_sentence) <= PAD_MAX

\* the padding loop: the filler is appended to the last paragraph while the
\* condition holds
RECURSIVE Pad(_)
Pad(paras) ==
  WithValue(paras, LAMBDA paragraphs :
    IF PadNeeded(Len(Concat(paragraphs)))
    THEN Pad([paragraphs EXCEPT
                ![Len(paragraphs)] =
                   RStrip(@, {MARU}) \o <<MARU>> \o filler_sentence])
    ELSE paragraphs)

\* the paragraphs _fallback_generate joins under the header
FallbackParagraphs(context, hint) == Pad(Paragraphs(context, hint))

\* _fallback_generate
fallback_generate(date, context, hint) ==
  Join(<<date \o HEADER_SUFFIX>> \o FallbackParagraphs(context, hint),
       <<NEWLINE>>)

(***************************************************************************)
(* rag_chain.py: self_check                                                *)
(***************************************************************************)

\* one CheckResult (its detail text is not modelled)
CheckResult(name, passed) == [name |-> name, passed |-> passed]

\* the date_presence check: its CheckResult
DatePresence(text, expected_date) ==
  IF expected_date # << >>
  THEN CheckResult("date_presence",
         \/ Contains(text, expected_date)
         \/ Contains(RemoveChar(text, HYPHEN),
                     RemoveChar(expected_date, HYPHEN)))
  ELSE CheckResult("date_presence", TRUE)

\* the banned_words check
BannedWords(text) ==
  CheckResult("banned_words", \A word \in BANNED_WORDS : ~Contains(text, word))

\* lines = [line.rstrip() for line in text.splitlines()]
CheckLines(text) ==
  WithValue(SplitLines(text),
            LAMBDA ls : [i \in 1..Len(ls) |-> RStrip(ls[i], Whitespace)])

\* the header_format check, made only when there is a line and a date
HeaderFormat(lines, expected_date) ==
  IF lines # << >> /\ expected_date # << >>
  THEN << CheckResult("header_format",
            Strip(lines[1], Whitespace) = expected_date \o HEADER_SUFFIX) >>
  ELSE << >>

\* a structure check that counts the non-blank lines and ignores blank ones
Structure_CountOnly(lines) ==
  IF lines = << >> THEN << >>
  ELSE << CheckResult("structure",
            Cardinality({i \in 2..Len(lines) :
                           Strip(lines[i], Whitespace) # << >>}) = 3) >>

\* the structure check, made only when there is a line
Structure(lines) ==
  IF lines = << >> THEN << >>
  ELSE WithValue(Tail(lines), LAMBDA body_lines :
         LET blank_line_found ==
               \E i \in 1..Len(body_lines) :
                  Strip(body_lines[i], Whitespace) = << >>
             non_empty_count ==
               Cardinality({i \in 1..Len(body_lines) :
                              Strip(body_lines[i], Whitespace) # << >>})
         IN  << CheckResult("structure",
                            ~blank_line_found /\ non_empty_count = 3) >>)

\* the length and punctuation checks, made only when there is a body line
LengthAndPunctuation(lines) ==
  IF lines = << >> \/ Tail(lines) = << >> THEN << >>
  ELSE WithValue(Concat(Tail(lines)), LAMBDA body_text :
       << CheckResult("length",
                      LEN_MIN <= Len(body_text) /\ Len(body_text) <= LEN_MAX),
          CheckResult("punctuation",
                      \A i \in 1..Len(body_text) :
                         body_text[i] \notin BANNED_PUNCT) >>)

\* the repair instruction self_check records for a failed check
IssueOf(name) ==
  CASE name = "date_presence" -> ISSUE_DATE
    [] name = "banned_words" -> ISSUE_BANNED
    [] name = "header_format" -> ISSUE_HEADER
    [] name = "structure" -> ISSUE_STRUCTURE
    [] name = "length" -> ISSUE_LENGTH
    [] name = "punctuation" -> ISSUE_PUNCTUATION

\* a report that never carries the retry_prompt key
build_retry_prompt_Absent(issues, facts_date) == None

\* _build_retry_prompt
build_retry_prompt(issues, facts_date) ==
  LET focus == IF facts_date = None \/ facts_date = << >>
               THEN DATE_UNSPECIFIED ELSE facts_date
  IN  RETRY_HEAD \o Join(issues, ISSUE_SEPARATOR) \o RETRY_FOCUS \o focus

\* self_check(text, {"date": facts_date}): the report; retry_prompt is None
\* when the key is absent
self_check(text, facts_date) ==
  WithValue(safe_str(facts_date), LAMBDA expected_date :
  WithValue(CheckLines(text), LAMBDA lines :
  WithValue(<< DatePresence(text, expected_date), BannedWords(text) >>
              \o HeaderFormat(lines, expected_date)
              \o Structure(lines)
              \o LengthAndPunctuation(lines), LAMBDA checks :
  WithValue(SelectSeq(checks, LAMBDA c : ~c.passed), LAMBDA failed :
    LET issues == [i \in 1..Len(failed) |-> IssueOf(failed[i].name)]
        passed == failed = << >>
    IN  [ passed |-> passed,
          checks |-> checks,
          retry_prompt |-> IF passed THEN None
                           ELSE build_retry_prompt(issues, facts_date) ]))))

\* the passed flag of the check called name in a report; TRUE when the
\* report has no such check
CheckPassed(report, name) ==
  \A i \in 1..Len(report.checks) :
     report.checks[i].name = name => report.checks[i].passed

(***************************************************************************)
(* rag_chain.py: generate_interpolation                                    *)
(***************************************************************************)

\* rag_chain.py:212 "文脈情報は提供されませんでした。"
DEFAULT_PROMPT_CONTEXT ==
  << 25991, 33032, 24773, 22577, 12399, 25552, 20379, 12373, 12428, 12414,
     12379, 12435, 12391, 12375, 12383, 12290 >>

\* rag_chain.py:213 "特筆すべきヒントはありません。"
DEFAULT_PROMPT_HINT ==
  << 29305, 31558, 12377, 12409, 12365, 12498, 12531, 12488, 12399, 12354,
     12426, 12414, 12379, 12435, 12290 >>

\* template.format(...): the values the placeholders of the template receive
\* (the template and the style guide are text resources outside the code)
RenderPrompt(d, c, h) ==
  [ kind |-> "template",
    date |-> d,
    context |-> IF Strip(c, Whitespace) = << >> THEN DEFAULT_PROMPT_CONTEXT
                ELSE Strip(c, Whitespace),
    hint |-> IF h = None \/ h = << >> THEN DEFAULT_PROMPT_HINT ELSE h ]

\* what _call_llm leaves in generated_text: the text of the first output,
\* "" when the pipeline is not installed or raises (the except clause keeps
\* the initial "") or returns no output
LlmText(outcome) == IF outcome.kind = "text" THEN outcome.text ELSE << >>

\* an empty backend text returned as it is
AfterCallLlm_NoFallback(text) ==
  IF Strip(text, Whitespace) = << >> THEN "return" ELSE "self_check"

\* line 224: the branch taken on the text the backend left
AfterCallLlm(text) ==
  IF Strip(text, Whitespace) = << >> THEN "fallback" ELSE "self_check"

\* the rejected backend text kept
AcceptedText_KeepRejected(text, report, fallback) == text

\* lines 227-232: the backend text is kept when the check passed, else the
\* fallback replaces it (when it is not empty)
AcceptedText(text, report, fallback) ==
  IF ~report.passed /\ fallback # << >> THEN fallback ELSE text

\* a second backend call after a failed check
AfterSelfCheck_Retry(report) ==
  IF report.passed THEN "return" ELSE "call_llm"

\* lines 227-234: after the check the function goes on to its return, on
\* either verdict
AfterSelfCheck(report) == "return"

(***************************************************************************)
(* datetime: the calendar arithmetic Retriever.search relies on            *)
(***************************************************************************)

\* the decimal value of a string of ASCII digits
RECURSIVE DecimalValue(_)
DecimalValue(digits) ==
  IF digits = << >> THEN 0
  ELSE 10 * DecimalValue(SubSeq(digits, 1, Len(digits) - 1))
         + (digits[Len(digits)] - 48)

\* n in decimal, zero-padded to width characters (%Y, %m, %d of strftime)
RECURSIVE ZeroPadded(_, _)
ZeroPadded(n, width) ==
  IF width = 0 THEN << >>
  ELSE ZeroPadded(n \div 10, width - 1) \o <<48 + (n % 10)>>

IsLeap(y) == y % 4 = 0 /\ (y % 100 # 0 \/ y % 400 = 0)

DaysInMonth(y, m) ==
  IF m = 2 THEN (IF IsLeap(y) THEN 29 ELSE 28)
  ELSE IF m \in {4, 6, 9, 11} THEN 30 ELSE 31

\* the days of year y before month m
RECURSIVE DaysBeforeMonth(_, _)
DaysBeforeMonth(y, m) ==
  IF m = 1 THEN 0 ELSE DaysBeforeMonth(y, m - 1) + DaysInMonth(y, m - 1)

\* the days before 1 January of year y, counted from 0001-01-01
DaysBeforeYear(y) ==
  (y - 1) * 365 + ((y - 1) \div 4) - ((y - 1) \div 100) + ((y - 1) \div 400)

\* date(y, m, d).toordinal()
ToOrdinal(y, m, d) == DaysBeforeYear(y) + DaysBeforeMonth(y, m) + d

\* the value no parsed date has: date.fromisoformat raised ValueError
Unparseable == -1

\* datetime.date.fromisoformat(s).toordinal() for a str s that is either a
\* YYYY-MM-DD string or in no ISO 8601 date format at all; Unparseable when
\* s is not a calendar date
ParseIsoDate(s) ==
  IF /\ Len(s) = 10
     /\ s[5] = HYPHEN /\ s[8] = HYPHEN
     /\ \A i \in {1, 2, 3, 4, 6, 7, 9, 10} : s[i] \in DIGITS
  THEN LET y == DecimalValue(SubSeq(s, 1, 4))
           m == DecimalValue(SubSeq(s, 6, 7))
           d == DecimalValue(SubSeq(s, 9, 10))
       IN  IF y >= 1 /\ m \in 1..12 /\ d \in 1..DaysInMonth(y, m)
           THEN ToOrdinal(y, m, d) ELSE Unparseable
  ELSE Unparseable

\* the seconds in a day, and the ordinal of 1970-01-01
SecondsPerDay == 24 * 60 * 60
EpochOrdinal == ToOrdinal(1970, 1, 1)

\* int(datetime.combine(date.fromordinal(n), time.min).timestamp()), the
\* process running in UTC
MidnightTimestamp(ordinal) == (ordinal - EpochOrdinal) * SecondsPerDay

\* datetime.fromtimestamp(ts).strftime('%Y-%m-%d'), the process running in
\* UTC, for a timestamp of the years 1000 to 9999
IsoDateOfTimestamp(ts) ==
  LET ordinal == (ts \div SecondsPerDay) + EpochOrdinal
      y == CHOOSE yy \in (ordinal \div 366)..(ordinal \div 365 + 1) :
             DaysBeforeYear(yy) < ordinal /\ ordinal <= DaysBeforeYear(yy + 1)
      dayOfYear == ordinal - DaysBeforeYear(y)
      m == CHOOSE mm \in 1..12 :
             /\ DaysBeforeMonth(y, mm) < dayOfYear
             /\ dayOfYear <= DaysBeforeMonth(y, mm) + DaysInMonth(y, mm)
      d == dayOfYear - DaysBeforeMonth(y, m)
  IN  ZeroPadded(y, 4) \o <<HYPHEN>> \o ZeroPadded(m, 2) \o <<HYPHEN>>
        \o ZeroPadded(d, 2)

(***************************************************************************)
(* retriever.py: Retriever.search                                          *)
(***************************************************************************)

\* the defaults of search's signature
DEFAULT_K == 6
DEFAULT_DAY_WINDOW == 3

\* a stored metadata value of the "date" key: a number, a str holding a
\* number, any other str, or no value
NumberTs(n) == [kind |-> "number", value |-> n]
NumericStringTs(n) == [kind |-> "numeric_string", value |-> n]
TextTs == [kind |-> "text", value |-> 0]
MissingTs == [kind |-> "missing", value |-> 0]

\* the query without a filter
NoFilter == [gte |-> 0, lte |-> -1]

\* lines 56-69: filter_dict for the window around the parsed date
WindowFilter_Exclusive(ordinal, day_window) ==
  [ gte |-> MidnightTimestamp(ordinal - day_window) + 1,
    lte |-> MidnightTimestamp(ordinal + day_window) - 1 ]
WindowFilter(ordinal, day_window) ==
  [ gte |-> MidnightTimestamp(ordinal - day_window),
    lte |-> MidnightTimestamp(ordinal + day_window) ]

\* the index's metadata filter {"date": {"$gte": .., "$lte": ..}}: a range
\* operator selects the records whose value is a number in the range
Eligible(entry, filter) ==
  \/ filter = NoFilter
  \/ /\ entry.ts.kind = "number"
     /\ filter.gte <= entry.ts.value /\ entry.ts.value <= filter.lte

\* pinecone_index.query(vector, filter, top_k, include_metadata=True): the
\* first top_k eligible records in the index's descending similarity order
\* for the vector, which is the order of idx
IndexQuery(idx, filter, top_k) ==
  WithValue(SelectSeq([i \in 1..Len(idx) |->
                         [ id |-> idx[i].id,
                           score |-> Len(idx) - i,
                           metadata |-> idx[i] ]],
                      LAMBDA match : Eligible(match.metadata, filter)),
            LAMBDA found : Take(found, top_k))

\* line 89: the filtered result is short of k
NeedsBackfill_Inclusive(matches, k) == Len(matches) <= k
NeedsBackfill(matches, k) == Len(matches) < k

\* line 97: a match of the broader query not yet among the results
IsNewMatch_Always(match, found_ids) == TRUE
IsNewMatch(match, found_ids) == match.id \notin found_ids

\* lines 96-101: the broader matches not yet present are appended, until
\* the list holds k
Backfill_NewFirst(matches, found_ids, broader, k) ==
  Take(SelectSeq(broader, LAMBDA m : m.id \notin found_ids), k - Len(matches))
    \o matches
RECURSIVE Backfill(_, _, _, _)
Backfill(matches, found_ids, broader, k) ==
  IF broader = << >> THEN matches
  ELSE IF IsNewMatch(Head(broader), found_ids)
  THEN WithValue(Append(matches, Head(broader)), LAMBDA appended :
         IF Len(appended) >= k THEN appended
         ELSE Backfill(appended, found_ids \cup {Head(broader).id},
                       Tail(broader), k))
  ELSE Backfill(matches, found_ids, Tail(broader), k)

\* lines 110-120: the date of a passage
PassageDate(match) ==
  LET ts == match.metadata.ts IN
  IF ts.kind = "missing" \/ (ts.kind = "number" /\ ts.value = 0) THEN << >>
  ELSE IF ts.kind = "text" THEN match.id
  ELSE IsoDateOfTimestamp(ts.value)

\* lines 122-129: one passage
Passage(match) ==
  [ text |-> match.metadata.text,
    metadata |-> [date |-> PassageDate(match),
                  location |-> match.metadata.location],
    score |-> match.score ]

(***************************************************************************)
(* rag_chain.py: build_context                                             *)
(***************************************************************************)

\* an item of the list build_context is given: a str, or a dict that may
\* hold the keys "text", "date" and "source", in this order, with str
\* values; None stands for a key the dict does not hold
StrItem(s) == [kind |-> "str", text |-> s, date |-> None, source |-> None]
DictItem(text, d, source) ==
  [kind |-> "dict", text |-> text, date |-> d, source |-> source]

\* "'key': 'value'" inside the repr of a dict, for a printable value free of
\* quotes; nothing for a key the dict does not hold
ReprEntry(key, value) ==
  IF value = None THEN << >>
  ELSE << <<39>> \o key \o <<39, 58, 32, 39>> \o value \o <<39>> >>

\* str(item) for a dict item
DictRepr(item) ==
  <<123>>
    \o Join(ReprEntry(<<116, 101, 120, 116>>, item.text)
              \o ReprEntry(<<100, 97, 116, 101>>, item.date)
              \o ReprEntry(<<115, 111, 117, 114, 99, 101>>, item.source),
            <<44, 32>>)
    \o <<125>>

\* lines 64-65, 72-73: the text of an item; a dict without a truthy "text"
\* (and without "body") stands in for its own text
ItemText(item) ==
  IF item.kind = "str" THEN Strip(item.text, Whitespace)
  ELSE IF item.text # None /\ item.text # << >> THEN safe_str(item.text)
  ELSE Strip(DictRepr(item), Whitespace)

\* rag_chain.py:71: ' / ' (3 characters)
META_SEPARATOR == <<32, 47, 32>>

\* lines 66-71: the note of an item, from the keys it holds ("metadata" and
\* "score" are keys the items of the model do not hold)
ItemMeta(item) ==
  IF item.kind = "str" THEN << >>
  ELSE Join(SelectSeq([i \in 1..2 |->
                         safe_str(IF i = 1 THEN item.date ELSE item.source)],
                      LAMBDA part : part # << >>),
            META_SEPARATOR)

\* f"{idx:02d}" for idx < 1000
TwoDigits(idx) == IF idx < 100 THEN ZeroPadded(idx, 2) ELSE ZeroPadded(idx, 3)

\* lines 81-83: the line of the item enumerate numbers idx
NumberedLine(idx, item) ==
  TwoDigits(idx) \o <<46, SPACE>> \o ItemText(item)
    \o (IF ItemMeta(item) # << >>
        THEN <<PAREN_OPEN>> \o ItemMeta(item) \o <<PAREN_CLOSE>>
        ELSE << >>)

\* line 78: the positions of the items that are not skipped
KeptPositions(passages) ==
  SelectSeq([i \in 1..Len(passages) |-> i],
            LAMBDA i : ItemText(passages[i]) # << >>)

\* lines 62-84: lines
NumberedLines(passages) ==
  WithValue(KeptPositions(passages), LAMBDA kept :
    [j \in 1..Len(kept) |-> NumberedLine(kept[j], passages[kept[j]])])

\* build_context(passages)
build_context_NoSentinel(passages) ==
  Join(NumberedLines(passages), <<NEWLINE>>)
build_context(passages) ==
  IF passages = << >> THEN NO_SOURCES
  ELSE WithValue(NumberedLines(passages), LAMBDA lines :
         IF lines = << >> THEN NO_SOURCES ELSE Join(lines, <<NEWLINE>>))

(***************************************************************************)
(* Inputs                                                                  *)
(***************************************************************************)

\* "2025-09-24" and "2025-09-23"
DATE_A == <<50, 48, 50, 53, 45, 48, 57, 45, 50, 52>>
DATE_B == <<50, 48, 50, 53, 45, 48, 57, 45, 50, 51>>
Dates == {DATE_A, DATE_B}

\* runs of an ordinary character (あ)
Letters(n) == Repeat(12354, n)

\* "雨だった日", the hint of the request schema's example
HINT_RAINY == <<38632, 12384, 12387, 12383, 26085>>

\* context lines: "01. 朝は散歩した。（2025-09-22）", "・（注）" (normalizes to
\* nothing), "・午前中は研究"
LINE_WALK ==
  << 48, 49, 46, 32, 26397, 12399, 25955, 27497, 12375, 12383, 12290, 65288,
     50, 48, 50, 53, 45, 48, 57, 45, 50, 50, 65289 >>
LINE_NOTE == <<12539, 65288, 27880, 65289>>
LINE_STUDY == <<12539, 21320, 21069, 20013, 12399, 30740, 31350>>

\* the longest hint is MaxHintBlocks blocks of BlockLen letters; a context
\* has at most MaxCtxLines lines
MaxHintBlocks == 3
MaxCtxLines == 4
BlockLen == 60

\* hints: None, or a short piece followed by blocks of letters
HintPieces ==
  { << >>, HINT_RAINY, <<12354, NEWLINE, 12354>>, <<12510, 12472>> }
Hints ==
  {None} \cup { piece \o Letters(n * BlockLen) :
                  piece \in HintPieces, n \in 0..MaxHintBlocks }

\* contexts: up to MaxCtxLines lines, newline-joined
CtxLines == {LINE_WALK, LINE_NOTE, LINE_STUDY}
Contexts ==
  { Join(ls, <<NEWLINE>>) :
      ls \in UNION {[1..n -> CtxLines] : n \in 0..MaxCtxLines} }

\* a text that passes every check for date d: the header and three lines of
\* n letters each, every line ending with the full-width period
WellFormed(d, n) ==
  Join(<<d \o HEADER_SUFFIX>>
         \o [i \in 1..3 |-> Letters(n - 1) \o <<MARU>>], <<NEWLINE>>)

\* what the backend may return for a request about date d
LlmTexts(d) ==
  { << >>,                                               \* ""
    <<SPACE, NEWLINE>>,                                  \* whitespace only
    WellFormed(d, 70),                                   \* passes
    WellFormed(d, 70) \o <<NEWLINE>>,                    \* passes, unstripped
    WellFormed(d, 50),                                   \* too short
    WellFormed(d, 70) \o <<NEWLINE>> \o Letters(10),     \* four body lines
    Letters(5) \o <<NEWLINE>> \o Letters(250),           \* no header, no date
    Join(<<d \o HEADER_SUFFIX, Letters(70), <<36229>> \o Letters(69),
           Letters(70)>>, <<NEWLINE>>),                  \* a banned word
    Join(<<d \o HEADER_SUFFIX, Letters(70), Letters(69) \o <<65281>>,
           Letters(70)>>, <<NEWLINE>>) }                 \* an exclamation mark

\* the outcomes of one backend call: transformers is not installed
\* (ImportError), the pipeline raises, it returns no output, or it returns a
\* text
BackendOutcomes(d) ==
  { [kind |-> k, text |-> << >>] : k \in {"not_installed", "raises", "no_output"} }
    \cup { [kind |-> "text", text |-> t] : t \in LlmTexts(d) }

\* which of the two prompt resources exist on disk
PromptFiles == [style_guide : BOOLEAN, template : BOOLEAN]

NoReport == [passed |-> FALSE, checks |-> << >>, retry_prompt |-> None]
NoOutcome == [kind |-> "none", text |-> << >>]

\* a date string that is no ISO date ("2025/09/24") and the dates a request
\* or a direct search may carry
DATE_SLASHED == <<50, 48, 50, 53, 47, 48, 57, 47, 50, 52>>
RequestDates == Dates \cup {DATE_SLASHED}

\* the ISO date n days after the ISO date d
DayAfter(d, n) == IsoDateOfTimestamp(MidnightTimestamp(ParseIsoDate(d) + n))

\* the timestamp of midnight of the ISO date d
TimestampOf(d) == MidnightTimestamp(ParseIsoDate(d))

\* a place name ("Kyoto") and the description of an encoder failure
\* ("encoder failed")
KYOTO == <<75, 121, 111, 116, 111>>
ENCODER_FAILED ==
  <<101, 110, 99, 111, 100, 101, 114, 32, 102, 97, 105, 108, 101, 100>>

\* the body of a diary entry longer than a citation snippet
LONG_ENTRY == LINE_WALK \o Letters(100)

\* the records an index may hold, keyed by date: three stamped with a
\* number (on DATE_A, on the edge of its default window, one day outside
\* it), one stamped with a number held in a str, one stamped with its ISO
\* date as ingest_diaries writes it (its body is the long one), one without
\* a date
EntryPool ==
  { [ id |-> DATE_A, ts |-> NumberTs(TimestampOf(DATE_A)),
      text |-> LINE_WALK, location |-> KYOTO ],
    [ id |-> DayAfter(DATE_A, -DEFAULT_DAY_WINDOW),
      ts |-> NumberTs(TimestampOf(DayAfter(DATE_A, -DEFAULT_DAY_WINDOW))),
      text |-> LINE_STUDY, location |-> << >> ],
    [ id |-> DayAfter(DATE_A, DEFAULT_DAY_WINDOW + 1),
      ts |-> NumberTs(TimestampOf(DayAfter(DATE_A, DEFAULT_DAY_WINDOW + 1))),
      text |-> LINE_NOTE, location |-> << >> ],
    [ id |-> DATE_B, ts |-> NumericStringTs(TimestampOf(DATE_B)),
      text |-> HINT_RAINY, location |-> KYOTO ],
    [ id |-> DayAfter(DATE_A, 1), ts |-> TextTs,
      text |-> LONG_ENTRY, location |-> << >> ],
    [ id |-> DayAfter(DATE_A, 2), ts |-> MissingTs,
      text |-> << >>, location |-> << >> ] }

\* an index holds at most MaxIndex records; search is asked for at most MaxK
\* and for a window of the default size or of at most MaxWindow days
MaxIndex == 3
MaxK == 3
MaxWindow == 0

\* one retriever_instance is searched at most MaxCalls times
MaxCalls == 2

\* the rankings an index of at most MaxIndex distinct records can give
Indexes ==
  UNION { { idx \in [1..n -> EntryPool] :
              \A i, j \in 1..n : i # j => idx[i].id # idx[j].id }
          : n \in 0..MaxIndex }

\* an exception: its class and str() of it
Exception(type, description) == [type |-> type, description |-> description]
NoException == Exception("none", << >>)

\* the retriever after construction: both collaborators loaded, or one of
\* them missing
Retrievers ==
  { [pinecone_index |-> TRUE, embedding_model |-> TRUE],
    [pinecone_index |-> FALSE, embedding_model |-> TRUE],
    [pinecone_index |-> TRUE, embedding_model |-> FALSE] }

\* the outcomes of embedding_model.encode and of pinecone_index.query
EncodeOutcomes ==
  { [kind |-> "ok", exception |-> NoException],
    [kind |-> "raises", exception |-> Exception("RuntimeError", ENCODER_FAILED)] }
QueryOutcomes == {"ok", "raises"}

\* the arguments of a direct search and the requests of the orchestrator
SearchArgs ==
  [ date : RequestDates, query : {<< >>, HINT_RAINY}, k : 1..MaxK,
    day_window : (0..MaxWindow) \cup {DEFAULT_DAY_WINDOW} ]
Requests == [ date : RequestDates, hint : {None, << >>, HINT_RAINY} ]

\* the items of the lists build_context is given, and the lists of at most
\* MaxItems of them
ItemPool ==
  { StrItem(<< >>),
    StrItem(<<SPACE>> \o HINT_RAINY \o <<SPACE>>),
    DictItem(LINE_STUDY, DATE_B, None),
    DictItem(HINT_RAINY, DATE_A, KYOTO),
    DictItem(<<SPACE, IDEOGRAPHIC_SPACE>>, DATE_A, None),
    DictItem(<< >>, DATE_B, None),
    DictItem(None, None, None) }
MaxItems == 3
ItemLists == UNION { [1..n -> ItemPool] : n \in 0..MaxItems }

NoArgs == [date |-> << >>, query |-> << >>, k |-> 0, day_window |-> 0]
NoRequest == [date |-> << >>, hint |-> None]
NoResponse == [date |-> << >>, text |-> << >>, citations |-> << >>]
NoHttp == [date |-> << >>, lookup |-> "none", diary |-> << >>, status |-> 0,
           detail |-> << >>, body |-> << >>]

(***************************************************************************)
(* State                                                                   *)
(***************************************************************************)

VARIABLES
  date, context, hint,   \* the arguments of the call in progress
  pc,                    \* where the call in progress stands
  prompt_files,          \* the prompt resources present on disk
  backend,               \* the outcome of the backend call of this request
  llm_prompts,           \* the prompts submitted to the backend, in order
  generated_text,        \* the local generated_text
  check,                 \* the report of self_check
  result,                \* the value returned
  retriever,             \* which collaborators retriever_instance holds
  index,                 \* the index, in its ranking for the query vector
  calls,                 \* the number of searches entered so far
  s_pc,                  \* where the search in progress stands
  s_args,                \* the arguments of the search in progress
  queries,               \* the index queries issued, in order
  matches,               \* results['matches']
  passages,              \* the list search returned
  raised,                \* the exception search raised
  o_pc,                  \* where interpolate stands
  req,                   \* the request interpolate serves
  stages,                \* the pipeline functions interpolate called
  response,              \* the response interpolate returned
  items,                 \* the list build_context is given
  ingest_env,            \* which collaborators the ingest module holds
  diary_entries,         \* the rows of the SQLite table diary_entries
  i_pc,                  \* where the ingest_diaries call in progress stands
  diaries,               \* the argument of the ingest_diaries call
  i_raised,              \* the exception ingest_diaries raised
  ingests,               \* the number of ingest_diaries calls so far
  http                   \* the last request read_diary served, its answer

genVars ==
  << date, context, hint, pc, prompt_files, backend, llm_prompts,
     generated_text, check, result >>

searchVars ==
  << retriever, index, calls, s_pc, s_args, queries, matches, passages,
     raised >>

orchVars == << o_pc, req, stages, response >>

contextVars == << items >>

storeVars ==
  << ingest_env, diary_entries, i_pc, diaries, i_raised, ingests, http >>

\* what the generator's steps leave alone
retrievalVars == << searchVars, orchVars, contextVars, storeVars >>

vars == << genVars, searchVars, orchVars, contextVars, storeVars >>

\* no search is in progress
SearchIdle ==
  /\ s_pc = "idle"
  /\ calls = 0
  /\ s_args = NoArgs
  /\ queries = << >>
  /\ matches = << >>
  /\ passages = << >>
  /\ raised = NoException

\* no request is being served
OrchIdle ==
  /\ o_pc = "idle"
  /\ req = NoRequest
  /\ stages = << >>
  /\ response = NoResponse

\* no ingest_diaries call and no read_diary request was made; both stores
\* are empty
StoreIdle ==
  /\ ingest_env = [embedding_model |-> TRUE, pc |-> TRUE]
  /\ diary_entries = {}
  /\ i_pc = "idle"
  /\ diaries = << >>
  /\ i_raised = NoException
  /\ ingests = 0
  /\ http = NoHttp

\* the retrieval side at rest, as the generator specifications keep it
RetrievalIdle ==
  /\ retriever = [pinecone_index |-> TRUE, embedding_model |-> TRUE]
  /\ index = << >>
  /\ SearchIdle
  /\ OrchIdle

(***************************************************************************)
(* generate_interpolation, step by step                                    *)
(***************************************************************************)

GenIdle ==
  /\ pc = "idle"
  /\ date = << >> /\ context = << >> /\ hint = None
  /\ backend = NoOutcome
  /\ llm_prompts = << >>
  /\ generated_text = << >>
  /\ check = NoReport
  /\ result = None

\* generate_interpolation(d, c, h) is called
GenCall(d, c, h) ==
  /\ pc = "idle"
  /\ date' = d /\ context' = c /\ hint' = h
  /\ pc' = "load"
  /\ UNCHANGED retrievalVars
  /\ UNCHANGED << prompt_files, backend, llm_prompts, generated_text, check, result >>

\* lines 206-215: both resources are read, the style guide first; a missing
\* one raises FileNotFoundError out of the call
GenLoadPrompts ==
  /\ pc = "load"
  /\ pc' = IF prompt_files.style_guide /\ prompt_files.template
           THEN "call_llm" ELSE "raised"
  /\ UNCHANGED retrievalVars
  /\ UNCHANGED << date, context, hint, prompt_files, backend, llm_prompts,
                  generated_text, check, result >>

\* lines 217-224: the prompt goes to the backend once; an exception is
\* logged and leaves generated_text empty
GenCallLlm(outcome) ==
  /\ pc = "call_llm"
  /\ llm_prompts' = Append(llm_prompts, RenderPrompt(date, context, hint))
  /\ backend' = outcome
  /\ generated_text' = LlmText(outcome)
  /\ pc' = AfterCallLlm(LlmText(outcome))
  /\ UNCHANGED retrievalVars
  /\ UNCHANGED << date, context, hint, prompt_files, check, result >>

\* line 225: nothing usable came back
GenFallback ==
  /\ pc = "fallback"
  /\ generated_text' = fallback_generate(date, context, hint)
  /\ pc' = "return"
  /\ UNCHANGED retrievalVars
  /\ UNCHANGED << date, context, hint, prompt_files, backend, llm_prompts,
                  check, result >>

\* lines 227-232: the backend text is checked and replaced when rejected
GenSelfCheck ==
  /\ pc = "self_check"
  /\ \E report \in {self_check(generated_text, date)} :
       /\ check' = report
       /\ generated_text' =
            WithValue(fallback_generate(date, context, hint), LAMBDA fallback :
              AcceptedText(generated_text, report, fallback))
       /\ pc' = AfterSelfCheck(report)
  /\ UNCHANGED retrievalVars
  /\ UNCHANGED << date, context, hint, prompt_files, backend, llm_prompts,
                  result >>

\* line 234
GenReturn ==
  /\ pc = "return"
  /\ result' = Strip(generated_text, Whitespace)
  /\ pc' = "done"
  /\ UNCHANGED retrievalVars
  /\ UNCHANGED << date, context, hint, prompt_files, backend, llm_prompts,
                  generated_text, check >>

\* the requests the generator specification draws: every date, the contexts
\* of at most one line, the hints without blocks
GenContexts == { << >> , NO_SOURCES, LINE_WALK, LINE_STUDY }
GenHints == {None} \cup HintPieces

InitGen ==
  /\ GenIdle
  /\ RetrievalIdle
  /\ items = << >>
  /\ StoreIdle
  /\ prompt_files \in PromptFiles

NextGen ==
  \/ \E d \in Dates, c \in GenContexts, h \in GenHints : GenCall(d, c, h)
  \/ GenLoadPrompts
  \/ \E outcome \in BackendOutcomes(date) : GenCallLlm(outcome)
  \/ GenFallback
  \/ GenSelfCheck
  \/ GenReturn

SpecGen == InitGen /\ [][NextGen]_vars

(***************************************************************************)
(* _fallback_generate and self_check applied to drawn inputs               *)
(***************************************************************************)

\* _fallback_generate(date, context, hint) is applied
FallbackApply ==
  /\ pc = "input"
  /\ generated_text' = fallback_generate(date, context, hint)
  /\ pc' = "generated"
  /\ UNCHANGED retrievalVars
  /\ UNCHANGED << date, context, hint, prompt_files, backend, llm_prompts,
                  check, result >>

\* self_check(output, {"date": date}) is applied to its output
FallbackCheck ==
  /\ pc = "generated"
  /\ check' = self_check(generated_text, date)
  /\ pc' = "checked"
  /\ UNCHANGED retrievalVars
  /\ UNCHANGED << date, context, hint, prompt_files, backend, llm_prompts,
                  generated_text, result >>

InitFallback ==
  /\ pc = "input"
  /\ RetrievalIdle
  /\ items = << >>
  /\ StoreIdle
  /\ date \in Dates /\ context \in Contexts /\ hint \in Hints
  /\ prompt_files = [style_guide |-> TRUE, template |-> TRUE]
  /\ backend = NoOutcome
  /\ llm_prompts = << >>
  /\ generated_text = << >>
  /\ check = NoReport
  /\ result = None

NextFallback == FallbackApply \/ FallbackCheck

SpecFallback == InitFallback /\ [][NextFallback]_vars

(***************************************************************************)
(* Retriever.search, step by step                                          *)
(***************************************************************************)

\* retriever.py:56: 'Invalid isoformat string: ', the head of the message of
\* the ValueError date.fromisoformat raises for a malformed str
INVALID_ISOFORMAT ==
  << 73, 110, 118, 97, 108, 105, 100, 32, 105, 115, 111, 102, 111, 114, 109,
     97, 116, 32, 115, 116, 114, 105, 110, 103, 58, 32 >>

\* str(e) of that ValueError: the head and repr(s), s printable and free of
\* quotes
IsoformatError(s) == INVALID_ISOFORMAT \o <<39>> \o s \o <<39>>

\* line 72: the query is embedded when it is truthy
Truthy(query) == query # None /\ query # << >>

\* the ids of a list of matches
IdsOf(found) == { found[i].id : i \in 1..Len(found) }

\* line 52: a collaborator is missing
NotInitialized_IndexOnly(r) == ~r.pinecone_index
NotInitialized(r) == ~r.pinecone_index \/ ~r.embedding_model

\* search(date, query, k, day_window) is entered
SearchEnter(args) ==
  /\ calls' = calls + 1
  /\ s_args' = args
  /\ s_pc' = "guard"
  /\ queries' = << >>
  /\ matches' = << >>
  /\ passages' = << >>
  /\ raised' = NoException

\* a caller other than the orchestrator calls search
SearchCall(args) ==
  /\ s_pc = "idle"
  /\ SearchEnter(args)
  /\ UNCHANGED << retriever, index, genVars, orchVars, items, storeVars >>

\* the same retriever_instance is searched again
SearchCallAgain(args) ==
  /\ s_pc \in {"returned", "raised"}
  /\ calls < MaxCalls
  /\ SearchEnter(args)
  /\ UNCHANGED << retriever, index, genVars, orchVars, items, storeVars >>

\* lines 52-53
SearchGuard ==
  /\ s_pc = "guard"
  /\ IF NotInitialized(retriever)
     THEN s_pc' = "raised" /\ raised' = Exception("ConnectionError", NOT_INITIALIZED)
     ELSE s_pc' = "window" /\ UNCHANGED raised
  /\ UNCHANGED << retriever, index, calls, s_args, queries, matches, passages,
                  genVars, orchVars, items, storeVars >>

\* lines 56-69: the date is parsed; a malformed one raises ValueError out
\* of search
SearchWindow ==
  /\ s_pc = "window"
  /\ IF ParseIsoDate(s_args.date) = Unparseable
     THEN /\ s_pc' = "raised"
          /\ raised' = Exception("ValueError", IsoformatError(s_args.date))
     ELSE s_pc' = "embed" /\ UNCHANGED raised
  /\ UNCHANGED << retriever, index, calls, s_args, queries, matches, passages,
                  genVars, orchVars, items, storeVars >>

\* lines 72-76: a truthy query is encoded, and an exception of the encoder
\* leaves search; a falsy one gives the zero vector
SearchEmbed(outcome) ==
  /\ s_pc = "embed"
  /\ IF Truthy(s_args.query) /\ outcome.kind = "raises"
     THEN s_pc' = "raised" /\ raised' = outcome.exception
     ELSE s_pc' = "query" /\ UNCHANGED raised
  /\ UNCHANGED << retriever, index, calls, s_args, queries, matches, passages,
                  genVars, orchVars, items, storeVars >>

\* lines 103-105: where search stands once the except clause has taken a
\* query's exception
AfterQueryRaised_Propagates == "raised"
AfterQueryRaised == "returned"

\* lines 80-89: the filtered query; an exception ends search with []
SearchQuery(outcome) ==
  /\ s_pc = "query"
  /\ \E filter \in {WindowFilter(ParseIsoDate(s_args.date), s_args.day_window)} :
       /\ queries' = Append(queries, [ filter |-> filter, top_k |-> s_args.k,
                                       outcome |-> outcome ])
       /\ IF outcome = "raises"
          THEN /\ s_pc' = AfterQueryRaised
               /\ passages' = << >>
               /\ UNCHANGED matches
          ELSE \E found \in {IndexQuery(index, filter, s_args.k)} :
                 /\ matches' = found
                 /\ s_pc' = IF NeedsBackfill(found, s_args.k)
                            THEN "backfill" ELSE "format"
                 /\ UNCHANGED passages
  /\ UNCHANGED << retriever, index, calls, s_args, raised, genVars, orchVars, items, storeVars >>

\* lines 90-101: the broader query and the backfill; an exception ends
\* search with []
SearchBackfill(outcome) ==
  /\ s_pc = "backfill"
  /\ queries' = Append(queries, [ filter |-> NoFilter, top_k |-> s_args.k * 2,
                                  outcome |-> outcome ])
  /\ IF outcome = "raises"
     THEN /\ s_pc' = AfterQueryRaised
          /\ passages' = << >>
          /\ UNCHANGED matches
     ELSE /\ matches' = Backfill(matches, IdsOf(matches),
                                 IndexQuery(index, NoFilter, s_args.k * 2),
                                 s_args.k)
          /\ s_pc' = "format"
          /\ UNCHANGED passages
  /\ UNCHANGED << retriever, index, calls, s_args, raised, genVars, orchVars, items, storeVars >>

\* lines 108-131
SearchFormat ==
  /\ s_pc = "format"
  /\ passages' = [i \in 1..Len(matches) |-> Passage(matches[i])]
  /\ s_pc' = "returned"
  /\ UNCHANGED << retriever, index, calls, s_args, queries, matches, raised,
                  genVars, orchVars, items, storeVars >>

InitSearch ==
  /\ GenIdle
  /\ prompt_files = [style_guide |-> TRUE, template |-> TRUE]
  /\ retriever \in Retrievers
  /\ index \in Indexes
  /\ (~retriever.pinecone_index => index = << >>)
  /\ SearchIdle
  /\ OrchIdle
  /\ items = << >>
  /\ StoreIdle

NextSearch ==
  \/ \E args \in SearchArgs : SearchCall(args)
  \/ SearchGuard
  \/ SearchWindow
  \/ \E outcome \in EncodeOutcomes : SearchEmbed(outcome)
  \/ \E outcome \in QueryOutcomes : SearchQuery(outcome)
  \/ \E outcome \in QueryOutcomes : SearchBackfill(outcome)
  \/ SearchFormat

SpecSearch == InitSearch /\ [][NextSearch]_vars

\* searches one after another on one retriever_instance, over the indexes
\* of at most one record
InitRepeat == InitSearch /\ Len(index) <= 1

NextRepeat ==
  \/ \E args \in SearchArgs : SearchCall(args)
  \/ \E args \in SearchArgs : SearchCallAgain(args)
  \/ SearchGuard
  \/ SearchWindow
  \/ \E outcome \in EncodeOutcomes : SearchEmbed(outcome)
  \/ \E outcome \in QueryOutcomes : SearchQuery(outcome)
  \/ \E outcome \in QueryOutcomes : SearchBackfill(outcome)
  \/ SearchFormat

SpecRepeat == InitRepeat /\ [][NextRepeat]_vars

(***************************************************************************)
(* orchestrator.py: Orchestrator.interpolate                               *)
(***************************************************************************)

\* str(x) inside an f-string, for a str or None
PyStr(x) == IF x = None THEN PY_NONE ELSE x

\* line 15: the text of the response to a failed retrieval
ErrorText(description) == ERROR_PREFIX \o description

\* lines 25-26: the text of the response
StubText(request, found) ==
  STUB_HEAD \o request.date \o STUB_HINT \o PyStr(request.hint)
    \o STUB_MEMORY
    \o Join([i \in 1..Len(found) |-> found[i].text], <<NEWLINE>>)

\* the length of a citation snippet before the ellipsis
SNIPPET_LEN == 100

\* citations whose snippet is the whole text of the passage
Citations_WholeText(found) ==
  [ i \in 1..Len(found) |->
      [ snippet |-> found[i].text \o SNIPPET_ELLIPSIS,
        date |-> found[i].metadata.date ] ]

\* lines 29-35
Citations(found) ==
  [ i \in 1..Len(found) |->
      [ snippet |-> Take(found[i].text, SNIPPET_LEN) \o SNIPPET_ELLIPSIS,
        date |-> found[i].metadata.date ] ]

\* lines 7-9: interpolate(request) calls search with the request's date and
\* hint and the defaults of k and day_window
OrchCall(request) ==
  /\ o_pc = "idle" /\ s_pc = "idle"
  /\ req' = request
  /\ stages' = Append(stages, "search")
  /\ o_pc' = "search"
  /\ SearchEnter([ date |-> request.date, query |-> request.hint,
                   k |-> DEFAULT_K, day_window |-> DEFAULT_DAY_WINDOW ])
  /\ UNCHANGED << response, retriever, index, genVars, items, storeVars >>

\* the classes `except Exception` catches among those search raises
EXCEPTION_CLASSES ==
  {"Exception", "ConnectionError", "ValueError", "RuntimeError"}

\* line 10: the handler takes the exception
Caught_OnlyConnectionError(type) == type = "ConnectionError"
Caught(type) == type \in EXCEPTION_CLASSES

\* lines 10-17: search raised; the handler turns the exception it catches
\* into the response, and any other leaves interpolate
OrchRetrievalFailed ==
  /\ o_pc = "search" /\ s_pc = "raised"
  /\ IF Caught(raised.type)
     THEN /\ response' = [ date |-> req.date,
                           text |-> ErrorText(raised.description),
                           citations |-> << >> ]
          /\ o_pc' = "responded"
     ELSE /\ o_pc' = "raised"
          /\ UNCHANGED response
  /\ UNCHANGED << req, stages, searchVars, genVars, items, storeVars >>

\* lines 19-41: search returned; the response is put together from the
\* passages, and neither build_context nor generate_interpolation is called
OrchRespond ==
  /\ o_pc = "search" /\ s_pc = "returned"
  /\ response' = [ date |-> req.date, text |-> StubText(req, passages),
                   citations |-> Citations(passages) ]
  /\ o_pc' = "responded"
  /\ UNCHANGED << req, stages, searchVars, genVars, items, storeVars >>

NextOrch ==
  \/ \E request \in Requests : OrchCall(request)
  \/ SearchGuard
  \/ SearchWindow
  \/ \E outcome \in EncodeOutcomes : SearchEmbed(outcome)
  \/ \E outcome \in QueryOutcomes : SearchQuery(outcome)
  \/ \E outcome \in QueryOutcomes : SearchBackfill(outcome)
  \/ SearchFormat
  \/ OrchRetrievalFailed
  \/ OrchRespond

SpecOrch == InitSearch /\ [][NextOrch]_vars

(***************************************************************************)
(* build_context applied to drawn lists                                    *)
(***************************************************************************)

\* build_context(items) is applied
BuildContext ==
  /\ pc = "build"
  /\ context' = build_context(items)
  /\ pc' = "built"
  /\ UNCHANGED retrievalVars
  /\ UNCHANGED << date, hint, prompt_files, backend, llm_prompts,
                  generated_text, check, result >>

InitContext ==
  /\ pc = "build"
  /\ items \in ItemLists
  /\ StoreIdle
  /\ date = << >> /\ context = << >> /\ hint = None
  /\ prompt_files = [style_guide |-> TRUE, template |-> TRUE]
  /\ backend = NoOutcome
  /\ llm_prompts = << >>
  /\ generated_text = << >>
  /\ check = NoReport
  /\ result = None
  /\ RetrievalIdle

NextContext == BuildContext

SpecContext == InitContext /\ [][NextContext]_vars

(***************************************************************************)
(* Properties of generate_interpolation (SpecGen)                          *)
(***************************************************************************)

\* the backend call of this request produced nothing usable: the pipeline
\* is not installed, it raised, or its text is empty after stripping
BackendUnusable ==
  /\ backend # NoOutcome
  /\ Strip(LlmText(backend), Whitespace) = << >>

\* C2: every text generate_interpolation returns is either the backend's
\* output for which self_check(output, {date}) reported passed = true, or
\* the fallback output for (date, context, hint); a backend output that
\* fails a check is never returned.
C2_ReturnedTextCheckedOrFallback ==
  pc = "done" =>
    \/ result = Strip(fallback_generate(date, context, hint), Whitespace)
    \/ /\ backend.kind = "text"
       /\ result = Strip(backend.text, Whitespace)
       /\ self_check(backend.text, date).passed

\* a backend text was rejected by the check and the call returned
C2_Witness ==
  /\ pc = "done"
  /\ backend.kind = "text"
  /\ check # NoReport /\ ~check.passed
  /\ result # Strip(backend.text, Whitespace)

\* C3: within one call the backend is invoked at most once, with the
\* rendered template and never with a retry prompt; once it has been
\* invoked (error, empty output or failed check included) the call never
\* stands before a backend call again.
C3_BackendCalledAtMostOnce ==
  /\ Len(llm_prompts) <= 1
  /\ \A i \in 1..Len(llm_prompts) :
        llm_prompts[i] = RenderPrompt(date, context, hint)
  /\ (pc = "call_llm" => llm_prompts = << >>)
  /\ (pc \in {"fallback", "self_check", "return", "done"}
        => Len(llm_prompts) = 1)

\* a call whose backend text failed the check has returned
C3_Witness ==
  /\ pc = "done"
  /\ check # NoReport /\ ~check.passed /\ check.retry_prompt # None
  /\ Len(llm_prompts) = 1

\* C4: when the prompt resources load and the backend is not installed,
\* raises or returns empty or whitespace-only text, the call does not raise
\* and returns the fallback output, whose first line is "{date} の記録".
C4_UnusableBackendFallsBack ==
  /\ (pc = "raised" => ~(prompt_files.style_guide /\ prompt_files.template))
  /\ (pc = "done" /\ BackendUnusable =>
        /\ result = fallback_generate(date, context, hint)
        /\ SplitLines(result)[1] = date \o HEADER_SUFFIX)

\* a call with the backend not installed has returned
C4_Witness ==
  /\ pc = "done"
  /\ backend.kind = "not_installed"
  /\ prompt_files.style_guide /\ prompt_files.template

(***************************************************************************)
(* Properties of _fallback_generate (SpecFallback)                         *)
(***************************************************************************)

\* body_text of _fallback_generate when it returns
FallbackBodyLen == Len(Concat(FallbackParagraphs(context, hint)))

\* C6: self_check on the fallback output, with facts.date the date it was
\* generated for, passes header_format, structure and banned_words, and the
\* output holds no denylisted word.
C6_FallbackPassesOwnCheck ==
  pc = "checked" =>
    /\ CheckPassed(check, "header_format")
    /\ CheckPassed(check, "structure")
    /\ CheckPassed(check, "banned_words")
    /\ \A word \in BANNED_WORDS : ~Contains(generated_text, word)

\* C7: the fallback output has exactly 4 lines, the header and 3 body
\* paragraphs, each body paragraph ending with the full-width period.
C7_FallbackHasFourLines ==
  pc = "generated" =>
    LET lines == SplitLines(generated_text) IN
      /\ Len(lines) = 4
      /\ lines[1] = date \o HEADER_SUFFIX
      /\ \A i \in 2..Len(lines) : EndsWith(lines[i], <<MARU>>)

\* C8: the body length after padding is at least 210 and at most 280 for
\* every context and hint, and within [200, 280] for an empty context and
\* no hint.
C8_FallbackBodyLength ==
  pc = "generated" =>
    /\ PAD_MIN <= FallbackBodyLen /\ FallbackBodyLen <= PAD_MAX
    /\ (context = << >> /\ hint = None =>
          LEN_MIN <= FallbackBodyLen /\ FallbackBodyLen <= LEN_MAX)

(***************************************************************************)
(* Properties of Retriever.search (SpecSearch)                             *)
(***************************************************************************)

\* what the two queries of the search in progress find in the index: the
\* filtered matches, the broader matches, and the broader matches whose id
\* is not among the filtered ones
FilteredMatches ==
  IndexQuery(index, WindowFilter(ParseIsoDate(s_args.date), s_args.day_window),
             s_args.k)
BroaderMatches == IndexQuery(index, NoFilter, s_args.k * 2)
NewBroader(broader) ==
  Cardinality({ i \in 1..Len(broader) :
                  broader[i].id \notin IdsOf(FilteredMatches) })

\* the filtered query was issued and returned
FilteredReturned == Len(queries) >= 1 /\ queries[1].outcome = "ok"

\* C9: the sequence search returns (filtered matches, then backfilled ones)
\* never holds two passages derived from the same index id, for every index
\* content and every k.
C9_NoDuplicateIds ==
  s_pc = "returned" =>
    /\ Len(passages) <= Len(matches)
    /\ \A i \in 1..Len(passages) : passages[i] = Passage(matches[i])
    /\ \A i, j \in 1..Len(passages) : i # j => matches[i].id # matches[j].id

\* search returned a filtered match followed by a backfilled one, the
\* broader query having found the filtered match again
C9_Witness ==
  /\ s_pc = "returned"
  /\ Len(queries) = 2
  /\ Len(passages) >= 2
  /\ matches[1].id \in IdsOf(FilteredMatches)
  /\ matches[1].id \in IdsOf(BroaderMatches)
  /\ matches[Len(passages)].id \notin IdsOf(FilteredMatches)

\* the count the backfill rule gives: k, or all of the filtered and the new
\* broader matches when they are fewer
BackfilledCount(broader) ==
  IF Len(FilteredMatches) + NewBroader(broader) < s_args.k
  THEN Len(FilteredMatches) + NewBroader(broader) ELSE s_args.k

\* search returns at most k passages; a filtered query that returns fewer
\* than k matches is followed by one unfiltered query with top_k = 2*k; a
\* filtered query that returns k matches is followed by none
BackfillQueries ==
  /\ (s_pc = "returned" => Len(passages) <= s_args.k)
  /\ (s_pc \in {"format", "returned"} /\ FilteredReturned
        /\ Len(FilteredMatches) < s_args.k =>
          /\ Len(queries) = 2
          /\ queries[2].filter = NoFilter
          /\ queries[2].top_k = 2 * s_args.k)
  /\ (FilteredReturned /\ Len(FilteredMatches) = s_args.k =>
        Len(queries) = 1)

\* C10 (as stated): search returns at most k passages; when the filtered
\* query returns f < k matches a second, unfiltered query with top_k = 2*k
\* is issued and the result has exactly min(k, f + n) passages, n the number
\* of the second query's matches whose id is not among the filtered ones;
\* when the filtered query returns k matches no second query is issued.
C10_BackfillCount ==
  /\ BackfillQueries
  /\ (s_pc = "returned" /\ FilteredReturned
        /\ Len(FilteredMatches) < s_args.k =>
          Len(passages) =
            BackfilledCount(IF queries[2].outcome = "ok"
                            THEN BroaderMatches ELSE << >>))

\* C10 (amended): as stated when the second query returns; when the second
\* query raises, the result is empty, the filtered matches included.
C10_BackfillCountWhenQueriesReturn ==
  /\ BackfillQueries
  /\ (s_pc = "returned" /\ FilteredReturned
        /\ Len(FilteredMatches) < s_args.k =>
          IF queries[2].outcome = "ok"
          THEN Len(passages) = BackfilledCount(BroaderMatches)
          ELSE passages = << >>)

\* both queries returned, the filtered one found a match, and the broader
\* one more new matches than k had room for
C10_Witness ==
  /\ s_pc = "returned"
  /\ Len(queries) = 2
  /\ queries[1].outcome = "ok" /\ queries[2].outcome = "ok"
  /\ Len(FilteredMatches) >= 1
  /\ Len(FilteredMatches) + NewBroader(BroaderMatches) > s_args.k
  /\ Len(passages) = s_args.k

\* every query of the search in progress returned
AllQueriesReturned ==
  \A i \in 1..Len(queries) : queries[i].outcome = "ok"

\* the record at rank i of the index is inside the window of the search
InWindow(i) ==
  Eligible(index[i],
           WindowFilter(ParseIsoDate(s_args.date), s_args.day_window))

C12_WindowInclusive ==
  Len(queries) >= 1 =>
    LET D == ParseIsoDate(s_args.date)
        W == s_args.day_window
        filter == queries[1].filter
        Stamped(day) == [ts |-> NumberTs(MidnightTimestamp(day))]
    IN  /\ filter.gte = MidnightTimestamp(D - W)
        /\ filter.lte = MidnightTimestamp(D + W)
        /\ Eligible(Stamped(D - W), filter)
        /\ Eligible(Stamped(D + W), filter)
        /\ ~Eligible(Stamped(D - W - 1), filter)
        /\ ~Eligible(Stamped(D + W + 1), filter)
        /\ \A i \in 1..Len(index) :
             index[i].ts.kind = "number" =>
               (Eligible(index[i], filter) <=>
                  /\ D - W <= ParseIsoDate(index[i].id)
                  /\ ParseIsoDate(index[i].id) <= D + W)

\* a search with a window of at least a day returned the record stamped
\* midnight of the first day of the window, and the index also held the
\* record of the day after the window
C12_Witness ==
  /\ s_pc = "returned"
  /\ s_args.day_window >= 1
  /\ Len(queries) = 1
  /\ \E i \in 1..Len(matches) :
       /\ matches[i].metadata.ts.kind = "number"
       /\ ParseIsoDate(matches[i].id)
            = ParseIsoDate(s_args.date) - s_args.day_window
  /\ \E i \in 1..Len(index) :
       /\ index[i].ts.kind = "number"
       /\ ParseIsoDate(index[i].id)
            = ParseIsoDate(s_args.date) + s_args.day_window + 1

\* C13: when an index query raises during search, the filtered one or the
\* backfill one, search returns an empty sequence and propagates nothing,
\* also when the filtered query had returned matches before the backfill
\* query raised.
C13_QueryErrorGivesEmpty ==
  (\E i \in 1..Len(queries) : queries[i].outcome = "raises") =>
    /\ s_pc = "returned"
    /\ passages = << >>
    /\ raised = NoException

\* the filtered query returned a match and the backfill query raised
C13_Witness ==
  /\ s_pc = "returned"
  /\ Len(queries) = 2
  /\ queries[1].outcome = "ok" /\ queries[2].outcome = "raises"
  /\ Len(matches) >= 1
  /\ passages = << >>

\* C15: search does not crash on a date string that is no calendar date:
\* for every unparseable date it returns normally instead of raising.
C15_UnparseableDateReturns ==
  /\ calls >= 1
  /\ ParseIsoDate(s_args.date) = Unparseable
  /\ retriever.pinecone_index /\ retriever.embedding_model
  => s_pc # "raised"

\* C16: for every match search returns, metadata.date of the passage is the
\* ISO date of the stored timestamp when it is a number or a numeric str,
\* and the match's own id when the timestamp is missing, malformed or not
\* parseable as a number.
C16_PassageDateOrId ==
  s_pc = "returned" =>
    \A i \in 1..Len(passages) :
      passages[i].metadata.date =
        IF matches[i].metadata.ts.kind \in {"number", "numeric_string"}
        THEN IsoDateOfTimestamp(matches[i].metadata.ts.value)
        ELSE matches[i].id

(***************************************************************************)
(* Properties of Orchestrator.interpolate (SpecOrch)                       *)
(***************************************************************************)

\* C1: for every request and every outcome of search (an error raised, an
\* empty list, passages) interpolate does not raise and its response carries
\* the request date; when search raised, the response text contains the
\* error description and citations is empty.
C1_InterpolateAlwaysResponds ==
  /\ o_pc # "raised"
  /\ (o_pc = "search" /\ s_pc \in {"raised", "returned"} =>
        ENABLED (OrchRetrievalFailed \/ OrchRespond))
  /\ (o_pc = "responded" => response.date = req.date)
  /\ (o_pc = "responded" /\ s_pc = "raised" =>
        /\ Contains(response.text, raised.description)
        /\ response.citations = << >>)

\* the date of the request was malformed, search raised ValueError, and
\* interpolate responded
C1_Witness ==
  /\ o_pc = "responded"
  /\ s_pc = "raised"
  /\ raised.type = "ValueError"
  /\ req.date = DATE_SLASHED

\* C5: when retrieval succeeds, interpolate runs search, build_context and
\* generate_interpolation (with its self_check) in this order, and the
\* response text is exactly what generate_interpolation returned for the
\* request date, the built context and the hint.
C5_PipelineStagesInOrder ==
  o_pc = "responded" /\ s_pc = "returned" =>
    /\ stages = <<"search", "build_context", "generate_interpolation">>
    /\ pc = "done"
    /\ date = req.date /\ hint = req.hint
    /\ response.text = result

\* interpolate responded after search returned
Responded == o_pc = "responded" /\ s_pc = "returned"

\* the first n characters of text, all of it when it is shorter
FirstChars(text, n) ==
  [j \in 1..(IF Len(text) < n THEN Len(text) ELSE n) |-> text[j]]

\* C22: when retrieval succeeds the response has one citation per retrieved
\* passage, in retrieval order, and each snippet is the first 100 characters
\* of the passage's text followed by the ellipsis marker.
C22_OneCitationPerPassage ==
  Responded =>
    /\ Len(response.citations) = Len(passages)
    /\ \A i \in 1..Len(passages) :
         response.citations[i].snippet
           = FirstChars(passages[i].text, 100) \o <<46, 46, 46>>

\* two passages were retrieved, one of them longer than a snippet
C22_Witness ==
  /\ Responded
  /\ Len(passages) >= 2
  /\ \E i \in 1..Len(passages) :
       /\ Len(passages[i].text) > 100
       /\ Len(response.citations[i].snippet) = 103
  /\ \E i \in 1..Len(passages) : Len(passages[i].text) < 100

\* C23: each citation's date is the passage's metadata date, and the
\* request date when the passage carries no date (absent or empty).
C23_CitationDateDefaults ==
  Responded =>
    \A i \in 1..Len(passages) :
       response.citations[i].date
         = IF passages[i].metadata.date = << >> THEN req.date
           ELSE passages[i].metadata.date

(***************************************************************************)
(* Properties of repeated searches (SpecRepeat)                            *)
(***************************************************************************)

\* C14: with the index or the embedding model not initialized, every search
\* fails with the retrieval-unavailable error before any encode call or
\* index query, and so does every later call: no step re-initializes the
\* collaborators.
C14_UninitializedAlwaysFails ==
  /\ [](~retriever.pinecone_index \/ ~retriever.embedding_model =>
          /\ s_pc \in {"idle", "guard", "raised"}
          /\ queries = << >>
          /\ (s_pc = "raised" =>
                raised = Exception("ConnectionError", NOT_INITIALIZED)))
  /\ [][retriever' = retriever]_vars

\* a second search on a retriever without its embedding model has failed
C14_Witness ==
  /\ ~retriever.embedding_model
  /\ calls = 2
  /\ s_pc = "raised"
  /\ raised = Exception("ConnectionError", NOT_INITIALIZED)

(***************************************************************************)
(* Properties of build_context (SpecContext)                               *)
(***************************************************************************)

\* the text of an item, trimmed: "" for a dict without "text"
TrimmedText(item) ==
  IF item.text = None THEN << >> ELSE Strip(item.text, Whitespace)

\* C17: for any input list the number of numbered output lines equals the
\* number of items with non-empty trimmed text, and the lines are numbered
\* 01, 02, ... with no gap where an item was skipped.
C17_ContiguousNumbering ==
  pc = "built" =>
    LET lines == NumberedLines(items) IN
      /\ Len(lines) = Cardinality({ i \in 1..Len(items) :
                                      TrimmedText(items[i]) # << >> })
      /\ \A j \in 1..Len(lines) :
           StartsWith(lines[j], TwoDigits(j) \o <<46, SPACE>>)

\* build_context skips exactly the str items that are blank and the dict
\* items whose "text" is a non-empty blank str
Skipped(item) ==
  /\ Strip(IF item.text = None THEN << >> ELSE item.text, Whitespace) = << >>
  /\ (item.kind = "dict" => item.text # None /\ item.text # << >>)

MaxBodyLines == 4

\* what a line after the first may be: a sentence of 70 or of 105
\* characters, an empty line, a line of one space
BodyPieces ==
  { Letters(69) \o <<MARU>>, Letters(104) \o <<MARU>>, << >>, <<SPACE>> }

\* the header of date d followed by up to MaxBodyLines lines
ShapedTexts(d) ==
  { Join(<<d \o HEADER_SUFFIX>> \o body, <<NEWLINE>>) :
      body \in UNION {[1..n -> BodyPieces] : n \in 0..MaxBodyLines} }

\* the texts self_check is applied to
CheckTexts == UNION {LlmTexts(d) \cup ShapedTexts(d) : d \in Dates}

\* facts.get("date"): the key is absent, or it is "", or it is a date
FactsDates == {None, << >>} \cup Dates

\* check = self_check(generated_text, {"date": date})
SelfCheckApply ==
  /\ pc = "check_text"
  /\ check' = self_check(generated_text, date)
  /\ pc' = "checked_text"
  /\ UNCHANGED retrievalVars
  /\ UNCHANGED << date, context, hint, prompt_files, backend, llm_prompts,
                  generated_text, result >>

InitCheck ==
  /\ pc = "check_text"
  /\ generated_text \in CheckTexts
  /\ date \in FactsDates
  /\ context = << >> /\ hint = None
  /\ prompt_files = [style_guide |-> TRUE, template |-> TRUE]
  /\ backend = NoOutcome
  /\ llm_prompts = << >>
  /\ check = NoReport
  /\ result = None
  /\ RetrievalIdle
  /\ items = << >>
  /\ StoreIdle

NextCheck == SelfCheckApply

SpecCheck == InitCheck /\ [][NextCheck]_vars

(***************************************************************************)
(* Properties of self_check (SpecCheck)                                    *)
(***************************************************************************)

BodyLinesOf(text) ==
  LET lines == SplitLines(text)
  IN  IF lines = << >> THEN << >> ELSE Tail(lines)

\* no line after the header is blank and exactly three are not
ThreeParagraphs(text) ==
  LET body == BodyLinesOf(text)
      blank(i) == \A j \in 1..Len(body[i]) : body[i][j] \in Whitespace
  IN  /\ \A i \in 1..Len(body) : ~blank(i)
      /\ Cardinality({i \in 1..Len(body) : ~blank(i)}) = 3

\* the checks called structure in a report
StructureResults(report) ==
  {i \in 1..Len(report.checks) : report.checks[i].name = "structure"}

\* the date a retry prompt names for facts_date
TargetDate(facts_date) ==
  IF facts_date = None \/ facts_date = << >> THEN DATE_UNSPECIFIED
  ELSE facts_date

\* C20: the structure check passes iff no line after the header is blank
\* and exactly 3 lines after it are non-blank; when it fails the report has
\* passed = false and a retry_prompt holding the structure repair
\* instruction and the target date.
C20_StructureCheck ==
  pc = "checked_text" =>
    /\ (\E i \in StructureResults(check) : check.checks[i].passed)
         = (SplitLines(generated_text) # << >>
              /\ ThreeParagraphs(generated_text))
    /\ (\E i \in StructureResults(check) : ~check.checks[i].passed) =>
         /\ ~check.passed
         /\ check.retry_prompt # None
         /\ Contains(check.retry_prompt, ISSUE_STRUCTURE)
         /\ Contains(check.retry_prompt, TargetDate(date))

\* a header and two body lines: only the structure check fails
C20_Witness ==
  /\ pc = "checked_text"
  /\ Len(BodyLinesOf(generated_text)) = 2
  /\ \A i \in 1..Len(check.checks) :
       check.checks[i].passed = (check.checks[i].name # "structure")
  /\ date \in Dates
  /\ Contains(check.retry_prompt, ISSUE_STRUCTURE)
  /\ Contains(check.retry_prompt, date)

(***************************************************************************)
(* the length check and the padding loop applied to bodies of drawn length *)
(***************************************************************************)

\* how far below LEN_MIN and above LEN_MAX the drawn body lengths reach
BandMargin == 12

\* the drawn body lengths
BodyLengths == (LEN_MIN - BandMargin)..(LEN_MAX + BandMargin)

\* the header of date d and three lines, n characters in all, each ending
\* with the full-width period
TextOfLength(d, n) ==
  Join(<< d \o HEADER_SUFFIX,
          Letters(69) \o <<MARU>>,
          Letters(69) \o <<MARU>>,
          Letters(n - 141) \o <<MARU>> >>, <<NEWLINE>>)

\* check = self_check(generated_text, {"date": date})
BandCheck ==
  /\ pc = "band"
  /\ check = NoReport
  /\ check' = self_check(generated_text, date)
  /\ UNCHANGED retrievalVars
  /\ UNCHANGED << date, context, hint, pc, prompt_files, backend, llm_prompts,
                  generated_text, result >>

\* the padding loop of _fallback_generate run on the body lines of
\* generated_text as its paragraphs; result is the padded text
BandPad ==
  /\ pc = "band"
  /\ result = None
  /\ result' = WithValue(SplitLines(generated_text), LAMBDA lines :
                 Join(<<Head(lines)>> \o Pad(Tail(lines)), <<NEWLINE>>))
  /\ UNCHANGED retrievalVars
  /\ UNCHANGED << date, context, hint, pc, prompt_files, backend, llm_prompts,
                  generated_text, check >>

InitBand ==
  /\ pc = "band"
  /\ date \in Dates
  /\ \E n \in BodyLengths : generated_text = TextOfLength(date, n)
  /\ context = << >> /\ hint = None
  /\ prompt_files = [style_guide |-> TRUE, template |-> TRUE]
  /\ backend = NoOutcome
  /\ llm_prompts = << >>
  /\ check = NoReport
  /\ result = None
  /\ RetrievalIdle
  /\ items = << >>
  /\ StoreIdle

NextBand == BandCheck \/ BandPad

SpecBand == InitBand /\ [][NextBand]_vars

(***************************************************************************)
(* Properties of the length band (SpecBand)                                *)
(***************************************************************************)

\* the number of characters of the lines of text after its first line
BodyLen(text) == Len(Concat(BodyLinesOf(text)))

\* the length check of a report passed
LengthPassed(report) ==
  \E i \in 1..Len(report.checks) :
     report.checks[i].name = "length" /\ report.checks[i].passed

\* the length check passes exactly for bodies of 200 to 280 characters
LengthCheckBand ==
  check # NoReport =>
    LengthPassed(check) = (200 <= BodyLen(generated_text)
                             /\ BodyLen(generated_text) <= 280)

\* C21 as stated: the length check passes iff the body has 200 to 280
\* characters, and the padding targets the same band: a body already in
\* the band is left alone and a shorter one is padded into the band.
C21_SameBand ==
  /\ LengthCheckBand
  /\ result # None =>
       IF BodyLen(generated_text) >= 200
       THEN result = generated_text
       ELSE 200 <= BodyLen(result) /\ BodyLen(result) <= 280

\* C21, amended: the length check passes iff the body has 200 to 280
\* characters; the padding shares the upper bound 280 but pads every body
\* shorter than 210 characters, to a length of 210 to 280.
C21_LengthBandPadFrom210 ==
  /\ LengthCheckBand
  /\ result # None =>
       IF BodyLen(generated_text) >= 210
       THEN result = generated_text
       ELSE /\ 210 <= BodyLen(result) /\ BodyLen(result) <= 280
            /\ result # generated_text

\* a body of exactly 200 characters passed the length check and was padded
\* all the same
C21_Witness ==
  /\ BodyLen(generated_text) = 200
  /\ check # NoReport /\ LengthPassed(check)
  /\ result # None /\ BodyLen(result) > 200

(***************************************************************************)
(* Properties of the prompt resources (SpecGen)                            *)
(***************************************************************************)

\* C24: a missing prompt template is a configuration error of construction
\* time: no generate_interpolation call raises a missing-template error.
C24_NoMissingTemplateAtRequest ==
  ~(/\ pc = "raised"
    /\ prompt_files.style_guide
    /\ ~prompt_files.template)

(***************************************************************************)
(* Properties of the key points (SpecFallback)                             *)
(***************************************************************************)

\* the normalizations of the context lines that are not empty, in context
\* order
SurvivingPoints(ctx) ==
  LET lines == ContextLines(ctx)
      normalized == [i \in 1..Len(lines) |-> normalize_point(lines[i])]
  IN  SelectSeq(normalized, LAMBDA point : point # << >>)

\* C25: the key points of the fallback synthesizer are the first 3 context
\* lines, in context order, whose normalization is not empty: never more
\* than 3, and a line normalizing to nothing takes no slot; when none
\* survives the default phrase is the only key point.
C25_FirstThreeKeyPoints ==
  pc = "generated" =>
    LET surviving == SurvivingPoints(context)
        key_points == KeyPoints(context)
    IN  /\ Len(key_points) <= 3
        /\ IF surviving = << >>
           THEN key_points = <<DEFAULT_KEY_POINT>>
           ELSE /\ Len(key_points) = IF Len(surviving) < 3 THEN Len(surviving)
                                     ELSE 3
                /\ \A i \in 1..Len(key_points) : key_points[i] = surviving[i]
        /\ Contains(generated_text, MORNING_PREFIX \o key_points[1])

\* a context of four lines whose first normalizes to nothing: the three
\* after it are the key points
C25_Witness ==
  /\ pc = "generated"
  /\ Len(ContextLines(context)) = 4
  /\ normalize_point(ContextLines(context)[1]) = << >>
  /\ Len(KeyPoints(context)) = 3
  /\ Len(SurvivingPoints(context)) = 3

(***************************************************************************)
(* _normalize_point applied to lines that open with a time of day          *)
(***************************************************************************)

\* what follows the time of day: "散歩した", "研究", "雨が降った"; none opens with
\* a particle or ends with punctuation
PointTexts ==
  { <<25955, 27497, 12375, 12383>>, <<30740, 31350>>,
    <<38632, 12364, 38477, 12387, 12383>> }

\* a time-of-day prefix, one of the particles, a text
TimedLines ==
  { TIME_PREFIXES[i] \o TIME_PARTICLES[j] \o t :
      i \in DOMAIN TIME_PREFIXES, j \in DOMAIN TIME_PARTICLES, t \in PointTexts }

\* result = _normalize_point(context)
NormalizePoint ==
  /\ pc = "point"
  /\ result' = normalize_point(context)
  /\ pc' = "normalized"
  /\ UNCHANGED retrievalVars
  /\ UNCHANGED << date, context, hint, prompt_files, backend, llm_prompts,
                  generated_text, check >>

InitPoint ==
  /\ pc = "point"
  /\ context \in TimedLines
  /\ date = << >> /\ hint = None
  /\ prompt_files = [style_guide |-> TRUE, template |-> TRUE]
  /\ backend = NoOutcome
  /\ llm_prompts = << >>
  /\ generated_text = << >>
  /\ check = NoReport
  /\ result = None
  /\ RetrievalIdle
  /\ items = << >>
  /\ StoreIdle

NextPoint == NormalizePoint

SpecPoint == InitPoint /\ [][NextPoint]_vars

(***************************************************************************)
(* Properties of _normalize_point (SpecPoint)                              *)
(***************************************************************************)

\* C26: for a line made of a time-of-day prefix of the fixed set, one of the
\* trailing particles and a text T, point-normalization returns T: the whole
\* prefix and its particle are removed.
C26_TimePrefixRemoved ==
  pc = "normalized" =>
    \A i \in DOMAIN TIME_PREFIXES, j \in DOMAIN TIME_PARTICLES,
       t \in PointTexts :
         context = TIME_PREFIXES[i] \o TIME_PARTICLES[j] \o t => result = t

(***************************************************************************)
(* ingest.py: ingest_diaries, get_diary_by_date; api_server.py: read_diary *)
(***************************************************************************)

\* api_server.py:60 "Diary not found for the specified date."
DIARY_NOT_FOUND ==
  << 68, 105, 97, 114, 121, 32, 110, 111, 116, 32, 102, 111, 117, 110, 100,
    32, 102, 111, 114, 32, 116, 104, 101, 32, 115, 112, 101, 99, 105, 102,
    105, 101, 100, 32, 100, 97, 116, 101, 46 >>

\* api_server.py:63 "Failed to retrieve diary."
FAILED_TO_RETRIEVE ==
  << 70, 97, 105, 108, 101, 100, 32, 116, 111, 32, 114, 101, 116, 114, 105,
    101, 118, 101, 32, 100, 105, 97, 114, 121, 46 >>

\* ingest.py:104 and api_server.py:57: ","
COMMA == 44

\* a DiaryEntry; location is a str or None, tags a list of str, << >> for
\* both None and the empty list
DiaryEntry(d, body, location, tags) ==
  [date |-> d, body |-> body, location |-> location, tags |-> tags]

\* ingest.py:104: tags_str
TagsStr(tags) ==
  IF tags = << >> THEN None ELSE Join(tags, <<COMMA>>)

\* ingest.py:105-108: the row INSERT OR REPLACE writes for an entry
Row(entry) ==
  [ date |-> entry.date, body |-> entry.body, location |-> entry.location,
    tags |-> TagsStr(entry.tags) ]

\* ingest.py:101-108: the table after the rows of the entries are written,
\* a row replacing the one of the same date
RECURSIVE InsertOrReplace(_, _)
InsertOrReplace(rows, entries) ==
  IF entries = << >> THEN rows
  ELSE InsertOrReplace(
         {r \in rows : r.date # Head(entries).date} \cup {Row(Head(entries))},
         Tail(entries))

\* ingest.py:119-129: the vector of an entry: its id is the date and the
\* metadata "date" is the ISO date str
Vector(entry) ==
  [ id |-> entry.date, ts |-> TextTs, text |-> entry.body,
    location |-> IF entry.location = None THEN << >> ELSE entry.location ]

\* ingest.py:132: the index after upsert: a vector replaces the record of
\* the same id, a new one is added
RECURSIVE Upsert(_, _)
Upsert(idx, entries) ==
  IF entries = << >> THEN idx
  ELSE LET v == Vector(Head(entries))
           same == {i \in 1..Len(idx) : idx[i].id = v.id}
       IN  Upsert(IF same = {} THEN Append(idx, v)
                  ELSE [i \in 1..Len(idx) |-> IF i \in same THEN v ELSE idx[i]],
                  Tail(entries))

\* ingest.py:82-86: what get_diary_by_date returns: << >> for None, the
\* one row of the date otherwise
RowOf(rows, d) ==
  IF \E r \in rows : r.date = d THEN << CHOOSE r \in rows : r.date = d >>
  ELSE << >>

\* str.split(","), for a str that is not empty
RECURSIVE SplitOnComma(_)
SplitOnComma(s) ==
  LET commas == {i \in 1..Len(s) : s[i] = COMMA} IN
  IF commas = {} THEN <<s>>
  ELSE LET i == CHOOSE c \in commas : \A o \in commas : c <= o
       IN  <<SubSeq(s, 1, i - 1)>> \o SplitOnComma(SubSeq(s, i + 1, Len(s)))

\* api_server.py:56-58: the dict read_diary returns for a row
DiaryBody(row) ==
  [row EXCEPT !.tags = IF @ = None THEN @ ELSE SplitOnComma(@)]

\* "散歩" and "雨", two tags
TAG_WALK == <<25955, 27497>>
TAG_RAIN == <<38632>>

\* the entries the ingest calls draw from: two for DATE_A, one for DATE_B,
\* one for the day after DATE_A
DiaryPool ==
  { DiaryEntry(DATE_A, HINT_RAINY, KYOTO, <<TAG_WALK, TAG_RAIN>>),
    DiaryEntry(DATE_A, LONG_ENTRY, None, << >>),
    DiaryEntry(DATE_B, LINE_STUDY, KYOTO, << >>),
    DiaryEntry(DayAfter(DATE_A, 1), HINT_RAINY, None, <<TAG_RAIN>>) }

\* a call ingests at most MaxBatch entries, of distinct dates; there are at
\* most MaxIngests calls
MaxBatch == 2
MaxIngests == 2
Batches ==
  UNION { { b \in [1..n -> DiaryPool] :
              \A i, j \in 1..n : i # j => b[i].date # b[j].date }
          : n \in 1..MaxBatch }

\* the ingest module after import: the embedding model loaded or not, the
\* Pinecone client connected or not
IngestEnvs == [embedding_model : BOOLEAN, pc : BOOLEAN]

\* the dates read_diary is asked for
ReadDates == {e.date : e \in DiaryPool}

\* ingest.py:90-96: ingest_diaries(batch) is entered; without the embedding
\* model it raises RuntimeError at once
IngestCall(batch) ==
  /\ i_pc \in {"idle", "returned", "raised"}
  /\ ingests < MaxIngests
  /\ ingests' = ingests + 1
  /\ diaries' = batch
  /\ IF ingest_env.embedding_model
     THEN i_pc' = "init" /\ i_raised' = NoException
     ELSE i_pc' = "raised" /\ i_raised' = Exception("RuntimeError", << >>)
  /\ UNCHANGED << ingest_env, diary_entries, http, index >>

\* ingest.py:98-99: init_sqlite_db, then init_pinecone_index, which raises
\* ConnectionError without a client and whatever the client raises
IngestInit(outcome) ==
  /\ i_pc = "init"
  /\ IF outcome = "sqlite_raises"
     THEN i_pc' = "raised" /\ i_raised' = Exception("sqlite3.Error", << >>)
     ELSE IF ~ingest_env.pc
     THEN i_pc' = "raised" /\ i_raised' = Exception("ConnectionError", << >>)
     ELSE IF outcome = "index_raises"
     THEN i_pc' = "raised" /\ i_raised' = Exception("Exception", << >>)
     ELSE i_pc' = "insert" /\ i_raised' = NoException
  /\ UNCHANGED << ingest_env, diary_entries, diaries, ingests, http, index >>

\* ingest.py:101-110: the rows are written and committed; an error before
\* the commit leaves the table as it was
IngestInsert(outcome) ==
  /\ i_pc = "insert"
  /\ IF outcome = "ok"
     THEN /\ diary_entries' = InsertOrReplace(diary_entries, diaries)
          /\ i_pc' = "embed" /\ i_raised' = NoException
     ELSE /\ diary_entries' = diary_entries
          /\ i_pc' = "raised" /\ i_raised' = Exception("sqlite3.Error", << >>)
  /\ UNCHANGED << ingest_env, diaries, ingests, http, index >>

\* ingest.py:114-116: the bodies are embedded
IngestEmbed(outcome) ==
  /\ i_pc = "embed"
  /\ IF outcome = "ok"
     THEN i_pc' = "upsert" /\ i_raised' = NoException
     ELSE i_pc' = "raised" /\ i_raised' = Exception("RuntimeError", << >>)
  /\ UNCHANGED << ingest_env, diary_entries, diaries, ingests, http, index >>

\* ingest.py:118-133: the vectors are upserted in one request, and the call
\* returns
IngestUpsert(outcome) ==
  /\ i_pc = "upsert"
  /\ IF outcome = "ok"
     THEN /\ index' = Upsert(index, diaries)
          /\ i_pc' = "returned" /\ i_raised' = NoException
     ELSE /\ index' = index
          /\ i_pc' = "raised" /\ i_raised' = Exception("Exception", << >>)
  /\ UNCHANGED << ingest_env, diary_entries, diaries, ingests, http >>

\* api_server.py:48-64: GET /diary/{d}; lookup tells whether
\* get_diary_by_date returns or raises. The HTTPException(404) of line 60 is
\* raised inside the try block and is an Exception: the handler of line 61
\* takes it, like the exception of a failed lookup, and raises
\* HTTPException(500)
ReadDiary(d, lookup) ==
  /\ LET diary == IF lookup = "ok" THEN RowOf(diary_entries, d) ELSE << >> IN
     http' =
       IF lookup = "raises"
       THEN [ date |-> d, lookup |-> lookup, diary |-> << >>, status |-> 500,
              detail |-> FAILED_TO_RETRIEVE, body |-> << >> ]
       ELSE IF diary # << >>
       THEN [ date |-> d, lookup |-> lookup, diary |-> diary, status |-> 200,
              detail |-> << >>, body |-> << DiaryBody(diary[1]) >> ]
       ELSE [ date |-> d, lookup |-> lookup, diary |-> << >>, status |-> 500,
              detail |-> FAILED_TO_RETRIEVE, body |-> << >> ]
  /\ UNCHANGED << ingest_env, diary_entries, i_pc, diaries, i_raised, ingests,
                  index >>

\* everything but the stores and the ingest and read_diary calls
StoreFrame ==
  UNCHANGED << genVars, orchVars, contextVars, retriever, calls, s_pc, s_args,
               queries, matches, passages, raised >>

InitStore ==
  /\ GenIdle
  /\ prompt_files = [style_guide |-> TRUE, template |-> TRUE]
  /\ RetrievalIdle
  /\ items = << >>
  /\ ingest_env \in IngestEnvs
  /\ diary_entries = {}
  /\ i_pc = "idle"
  /\ diaries = << >>
  /\ i_raised = NoException
  /\ ingests = 0
  /\ http = NoHttp

NextStore ==
  \/ \E batch \in Batches : IngestCall(batch) /\ StoreFrame
  \/ \E outcome \in {"ok", "sqlite_raises", "index_raises"} :
       IngestInit(outcome) /\ StoreFrame
  \/ \E outcome \in {"ok", "raises"} : IngestInsert(outcome) /\ StoreFrame
  \/ \E outcome \in {"ok", "raises"} : IngestEmbed(outcome) /\ StoreFrame
  \/ \E outcome \in {"ok", "raises"} : IngestUpsert(outcome) /\ StoreFrame
  \/ \E d \in ReadDates, lookup \in {"ok", "raises"} :
       ReadDiary(d, lookup) /\ StoreFrame

SpecStore == InitStore /\ [][NextStore]_vars

(***************************************************************************)
(* Properties of the stores (SpecStore)                                    *)
(***************************************************************************)

\* C27: read_diary answers 404 "Diary not found" when no entry is stored for
\* the date, returns the entry when one is stored, and answers 500 only
\* when the lookup itself fails.
C27_ReadDiaryStatus ==
  http.lookup # "none" =>
    /\ (http.lookup = "ok" /\ http.diary = << >> =>
          http.status = 404 /\ http.detail = DIARY_NOT_FOUND)
    /\ (http.lookup = "ok" /\ http.diary # << >> =>
          /\ http.status = 200
          /\ Len(http.body) = 1
          /\ http.body[1].date = http.date
          /\ http.body[1].body = http.diary[1].body)
    /\ (http.status = 500 => http.lookup = "raises")

\* no ingest_diaries call is in progress
IngestAtRest == i_pc \in {"idle", "returned", "raised"}

\* C28: after any sequence of ingest_diaries calls from two empty stores,
\* returning or raising, a date is a row of diary_entries iff it is an id of
\* the vector index.
C28_StoresAgree ==
  IngestAtRest =>
    {r.date : r \in diary_entries} = {index[i].id : i \in 1..Len(index)}

====
